---------------------------- MODULE Spec2Model ----------------------------
(***************************************************************************)
(* Track association and visitor lifecycle of the face tracker:            *)
(* FacePipeline (src/src/face_pipeline.py), FaceTracker                    *)
(* (src/src/tracker.py) and the visitor store (src/src/database.py).       *)
(*                                                                         *)
(* One action, ProcessFrameIn, is one call of FacePipeline.process_frame   *)
(* (ProcessFrame: no call raises and the clock is read once in the frame). *)
(* The collaborators are the environment: the low-level trackers (success  *)
(* and box of every update, success of init), the detector (the boxes it   *)
(* returns), the recognizer (embedding, resolution) and the wall clock.    *)
(* Time is counted in whole seconds. The time.time() calls that refresh an *)
(* ActiveVisitor in a frame read the same value; the call of the staleness *)
(* sweep may read a later one.                                             *)
(***************************************************************************)
EXTENDS Integers, Sequences, FiniteSets, TLC

VARIABLES
    frame_count,            \* FacePipeline.frame_count
    detection_skip_frames,  \* FacePipeline.detection_skip_frames (configuration)
    trackers,               \* FaceTracker.trackers: ids holding a low-level handle
    tracked_faces,          \* FaceTracker.tracked_faces: id -> face_id, bbox, lost_frames
    lost_trackers,          \* FaceTracker.lost_trackers: id -> failures counted
    next_tracker_id,        \* FaceTracker.next_tracker_id
    current_faces,          \* FacePipeline.current_faces, a dict in insertion order
    known_faces,            \* identities the recognizer has minted
    visitors,               \* rows of the visitors table (face_id)
    events,                 \* rows of the events table, in commit order
    total_visits,           \* Visitor.total_visits by face_id, where it is followed
    now,                    \* time.time(), in seconds
    last                    \* what the last call did and returned

vars == <<frame_count, detection_skip_frames, trackers, tracked_faces,
          lost_trackers, next_tracker_id, current_faces, known_faces,
          visitors, events, total_visits, now, last>>

----------------------------------------------------------------------------
(* Program constants *)

max_lost_frames == 30

exit_threshold == 2

\* best_iou = 0.5, as the fraction <<numerator, denominator>>
iou_threshold == <<1, 2>>

----------------------------------------------------------------------------
(* Bounds of the model *)

\* frames processed, broad environment
MaxFrames == 3

\* add_face calls, broad environment
MaxTracks == 2

\* identities minted, broad environment
MaxIds == 2

\* largest clock value
MaxTime == 3

\* largest configured detection_skip_frames
MaxSkip == 2

\* frames processed, long runs
LongFrames == 35

\* add_face calls, long runs
LongTracks == 1

\* identities minted, long runs
LongIds == 1

\* last frame of a long run in which a low-level update may succeed
LongOkUntil == 5

\* tracks in the list handed to the matcher on its own
MatchCands == 3

\* frames processed, frames of two detections
PairFrames == 2

\* add_face calls, frames of two detections
PairTracks == 3

\* calls of the FaceTracker's methods, the tracker on its own
TrackerCalls == 5

\* width and height of the frames
FrameW == 4

FrameH == 4

\* coordinates of the boxes handed to calculate_iou on its own: 0..IouMax
IouMax == 2

\* the clock stops at LagTime seconds when frames take time
LagTime == 5

\* frames, tracks created and identities minted with a store that may fail
StoreFrames == 3

StoreTracks == 1

StoreIds == 1

\* frames, tracks created and identities minted when calls of the
\* collaborators may raise
FailFrames == 2

FailTracks == 3

FailIds == 3

\* frames of each of two pipelines, tracks created by each and identities
\* minted by each
TwoFrames == 2

TwoTracks == 2

TwoIds == 1

\* ids the tracker on its own hands out between two calls of clear, and the
\* failure count from which a track's low-level update always fails
RegIds == 2

RegOkUntil == 2

\* a run that goes on until a failing track is gone: frames, tracks and
\* identities, and the last frame in which the detector returns a face and a
\* low-level update succeeds
LiveFrames == 33

LiveTracks == 1

LiveIds == 1

LiveOkUntil == 2

\* frames, tracks and identities of a run in which total_visits is followed
VisitFrames == 3

VisitTracks == 2

VisitIds == 1

\* face_ids the store is called with on its own
DbIds == 2

\* rows of the events table when the store is called on its own
DbEvents == 3

----------------------------------------------------------------------------
(* Values *)

\* Python's None for a face_id; identities are 1, 2, ...
None == 0

\* add_face's None
NoTracker == -1

BoxA == <<0, 0, 2, 2>>

BoxB == <<2, 2, 4, 4>>

\* a degenerate box
BoxZ == <<1, 1, 1, 1>>

\* boxes the detector returns
DetBoxes == {BoxA, BoxB, BoxZ}

\* rectangles (x, y, w, h) a low-level tracker reports: BoxA, and one that
\* has drifted over the left edge of the frame
TrackRects == {<<0, 0, 2, 2>>, <<-1, 0, 2, 2>>}

Max(a, b) == IF a > b THEN a ELSE b

Min(a, b) == IF a < b THEN a ELSE b

RECURSIVE SortedSeq(_)
\* the elements of a finite set of integers in ascending order
SortedSeq(S) ==
    IF S = {} THEN <<>>
    ELSE LET m == CHOOSE x \in S : \A y \in S : x <= y
         IN <<m>> \o SortedSeq(S \ {m})

----------------------------------------------------------------------------
(* utils.calculate_iou and FaceDetector.crop_face *)

\* mutant: the intersection is counted twice in the union
calculate_iou_sum(box1, box2) ==
    LET x1 == Max(box1[1], box2[1])
        y1 == Max(box1[2], box2[2])
        x2 == Min(box1[3], box2[3])
        y2 == Min(box1[4], box2[4])
        intersection == Max(0, x2 - x1) * Max(0, y2 - y1)
        area1 == (box1[3] - box1[1]) * (box1[4] - box1[2])
        area2 == (box2[3] - box2[1]) * (box2[4] - box2[2])
        union == area1 + area2
    IN IF union > 0 THEN <<intersection, union>> ELSE <<0, 1>>

\* intersection / union as <<numerator, denominator>>; 0 when union <= 0
calculate_iou(box1, box2) ==
    LET x1 == Max(box1[1], box2[1])
        y1 == Max(box1[2], box2[2])
        x2 == Min(box1[3], box2[3])
        y2 == Min(box1[4], box2[4])
        intersection == Max(0, x2 - x1) * Max(0, y2 - y1)
        area1 == (box1[3] - box1[1]) * (box1[4] - box1[2])
        area2 == (box2[3] - box2[1]) * (box2[4] - box2[2])
        union == area1 + area2 - intersection
    IN IF union > 0 THEN <<intersection, union>> ELSE <<0, 1>>

\* a > b for two fractions with positive denominators
FracGt(a, b) == a[1] * b[2] > b[1] * a[2]

\* length of the slice [a:b] of an axis of length n (a negative index counts
\* from the end, indices are clipped to the axis)
SliceLen(a, b, n) ==
    LET start == IF a < 0 THEN Max(a + n, 0) ELSE Min(a, n)
        stop == IF b < 0 THEN Max(b + n, 0) ELSE Min(b, n)
    IN Max(0, stop - start)

\* mutant: the slices take their end index in
CropSizeInclusive(bbox) ==
    SliceLen(bbox[2], bbox[4] + 1, FrameH) * SliceLen(bbox[1], bbox[3] + 1, FrameW)

\* size of frame[y1:y2, x1:x2], in pixels
CropSize(bbox) == SliceLen(bbox[2], bbox[4], FrameH) * SliceLen(bbox[1], bbox[3], FrameW)

----------------------------------------------------------------------------
(* current_faces: a dict, kept as the sequence of its items in insertion   *)
(* order; an item is [face_id, bbox, last_seen, tracker_id]                *)

FaceIds(cur) == {cur[i].face_id : i \in 1..Len(cur)}

FaceInfo(cur, f) == cur[CHOOSE i \in 1..Len(cur) : cur[i].face_id = f]

\* cur[f] = item: in place when f is a key, appended otherwise
SetFace(cur, item) ==
    IF item.face_id \in FaceIds(cur)
    THEN [i \in 1..Len(cur) |-> IF cur[i].face_id = item.face_id THEN item ELSE cur[i]]
    ELSE Append(cur, item)

\* mutant: an entry is stale at the threshold
StaleAtThreshold(item, t) == t - item.last_seen >= exit_threshold

\* the test of _check_face_exits
Stale(item, t) == t - item.last_seen > exit_threshold

\* del cur[f]
DelFace(cur, f) == SelectSeq(cur, LAMBDA e : e.face_id # f)

----------------------------------------------------------------------------
(* Database *)

visitor_exists(rows, face_id) == \E i \in 1..Len(rows) : rows[i] = face_id

\* ok: the commit succeeds. face_id is unique: a second insert of the same
\* face_id fails. A failed insert is rolled back
add_visitor(rows, face_id, ok) ==
    IF ok /\ ~visitor_exists(rows, face_id) THEN Append(rows, face_id) ELSE rows

\* mutant: the row is put before the rows persisted so far
log_event_first(evs, face_id, event_type, image_path, ok) ==
    IF ok
    THEN <<[face_id |-> face_id, event_type |-> event_type,
            image_path |-> image_path]>> \o evs
    ELSE evs

\* ok: the commit succeeds; a failed insert is rolled back
log_event(evs, face_id, event_type, image_path, ok) ==
    IF ok
    THEN Append(evs, [face_id |-> face_id, event_type |-> event_type,
                      image_path |-> image_path])
    ELSE evs

get_unique_visitor_count(rows) == Len(rows)

\* mutant: total_events counts the entry and exit rows only
get_visitor_stats_entry_exit(rows, evs) ==
    LET count(type) == Cardinality({i \in 1..Len(evs) : evs[i].event_type = type})
    IN [total_visitors |-> Len(rows), total_events |-> count("entry") + count("exit"),
        entry_events |-> count("entry"), exit_events |-> count("exit")]

\* Database.get_visitor_stats
get_visitor_stats(rows, evs) ==
    LET count(type) == Cardinality({i \in 1..Len(evs) : evs[i].event_type = type})
    IN [total_visitors |-> Len(rows), total_events |-> Len(evs),
        entry_events |-> count("entry"), exit_events |-> count("exit")]

----------------------------------------------------------------------------
(* The state the operations below thread through one frame: the fields of  *)
(* the FaceTracker, of the FacePipeline, of the recognizer and of the      *)
(* store, calls (the log_event calls of the frame, with their outcome),     *)
(* touches (its update_visitor_last_seen calls, with their outcome),       *)
(* handled (what _process_detections did with each detection of the frame), *)
(* raised (an exception is on its way up the call stack) and valid, which  *)
(* turns FALSE when a bound of the model is hit                            *)

\* raise
Raise(S) == [S EXCEPT !.raised = TRUE]

\* mutant: no except clause
Propagate(S) == S

\* except Exception as e: logger.error(...)
Catch(S) == [S EXCEPT !.raised = FALSE]

\* the fields of the tracker, the pipeline, the recognizer and the store
View(S) ==
    [trackers |-> S.trackers, tracked_faces |-> S.tracked_faces,
     lost_trackers |-> S.lost_trackers, next_tracker_id |-> S.next_tracker_id,
     current_faces |-> S.current_faces, known_faces |-> S.known_faces,
     visitors |-> S.visitors, events |-> S.events]

\* self.database.log_event(...), noted in calls
LogEvent(S, face_id, event_type, ok) ==
    [S EXCEPT !.events = log_event(S.events, face_id, event_type, "img", ok),
              !.calls = Append(S.calls, [face_id |-> face_id,
                                         event_type |-> event_type, ok |-> ok])]

Drop(f, k) == [x \in DOMAIN f \ {k} |-> f[x]]

Store(f, k, v) == [x \in DOMAIN f \cup {k} |-> IF x = k THEN v ELSE f[x]]

\* total_visits = Column(Integer, default=1)
default_total_visits == 1

\* the total_visits column where it is not followed
NotFollowed == [f \in {None} |-> 0]

Followed(visits) == None \notin DOMAIN visits

\* the total_visits column after add_visitor(face_id) on the table rows
visits_after_add(visits, rows, face_id, ok) ==
    IF Followed(visits) /\ ok /\ ~visitor_exists(rows, face_id)
    THEN Store(visits, face_id, default_total_visits)
    ELSE visits

\* mutant: total_visits counts the calls that found the row or not
update_visitor_last_seen_blind(visits, rows, face_id, ok) ==
    [visits |-> IF ok /\ Followed(visits)
                THEN Store(visits, face_id,
                           IF face_id \in DOMAIN visits THEN visits[face_id] + 1
                           ELSE default_total_visits)
                ELSE visits,
     returned |-> ok]

\* Database.update_visitor_last_seen(face_id) on the table rows: the column
\* after it and what it returns; ok: the commit succeeds
update_visitor_last_seen(visits, rows, face_id, ok) ==
    LET found == ok /\ visitor_exists(rows, face_id)
    IN [visits |-> IF found /\ Followed(visits)
                   THEN Store(visits, face_id, visits[face_id] + 1)
                   ELSE visits,
        returned |-> found]

\* lost_trackers is a defaultdict(int)
LostCount(lost, id) == IF id \in DOMAIN lost THEN lost[id] ELSE 0

----------------------------------------------------------------------------
(* FaceTracker *)

\* mutant: the failure counter of the removed track is kept
remove_tracker_keep_counter(S, tracker_id) ==
    [S EXCEPT !.trackers = S.trackers \ {tracker_id},
              !.tracked_faces = Drop(S.tracked_faces, tracker_id)]

\* mutant: the handle of the removed track is kept
remove_tracker_keep_handle(S, tracker_id) ==
    [S EXCEPT !.tracked_faces = Drop(S.tracked_faces, tracker_id),
              !.lost_trackers = Drop(S.lost_trackers, tracker_id)]

remove_tracker(S, tracker_id) ==
    [S EXCEPT !.trackers = S.trackers \ {tracker_id},
              !.tracked_faces = Drop(S.tracked_faces, tracker_id),
              !.lost_trackers = Drop(S.lost_trackers, tracker_id)]

\* mutant: the ceiling itself evicts
ExceedsCeilingAtCeiling(n) == n >= max_lost_frames

\* mutant: no ceiling
ExceedsCeilingNever(n) == FALSE

\* the ceiling test of update
ExceedsCeiling(n) == n > max_lost_frames

\* what update does to lost_trackers when the low-level update succeeds:
\* nothing, only tracked_faces[id]['lost_frames'] is reset
LostAfterSuccess(lost, tracker_id) == lost

\* mutant: a failed update forgets the track's box
UpdateOneLoseBox(S, tracker_id, r) ==
    IF r.ok
    THEN LET new_bbox == <<r.rect[1], r.rect[2], r.rect[1] + r.rect[3], r.rect[2] + r.rect[4]>>
         IN [S EXCEPT !.tracked_faces[tracker_id].bbox = new_bbox,
                      !.tracked_faces[tracker_id].lost_frames = 0,
                      !.lost_trackers = LostAfterSuccess(S.lost_trackers, tracker_id)]
    ELSE LET n == LostCount(S.lost_trackers, tracker_id) + 1
             S1 == [S EXCEPT !.tracked_faces[tracker_id].lost_frames = @ + 1,
                             !.tracked_faces[tracker_id].bbox = <<0, 0, 0, 0>>,
                             !.lost_trackers = Store(S.lost_trackers, tracker_id, n)]
         IN IF ExceedsCeiling(n) THEN remove_tracker(S1, tracker_id) ELSE S1

\* one iteration of update's loop; r is the low-level tracker's answer
\* [ok, rect], rect being (x, y, w, h)
UpdateOne(S, tracker_id, r) ==
    IF r.ok
    THEN LET new_bbox == <<r.rect[1], r.rect[2], r.rect[1] + r.rect[3], r.rect[2] + r.rect[4]>>
         IN [S EXCEPT !.tracked_faces[tracker_id].bbox = new_bbox,
                      !.tracked_faces[tracker_id].lost_frames = 0,
                      !.lost_trackers = LostAfterSuccess(S.lost_trackers, tracker_id)]
    ELSE LET n == LostCount(S.lost_trackers, tracker_id) + 1
             S1 == [S EXCEPT !.tracked_faces[tracker_id].lost_frames = @ + 1,
                             !.lost_trackers = Store(S.lost_trackers, tracker_id, n)]
         IN IF ExceedsCeiling(n) THEN remove_tracker(S1, tracker_id) ELSE S1

RECURSIVE UpdateLoop(_, _, _, _)
\* update's loop over list(self.trackers.items()); ids are created in
\* ascending order, so that is the dict's order
UpdateLoop(S, ids, res, active) ==
    IF ids = <<>> THEN [S |-> S, active |-> active]
    ELSE LET id == Head(ids)
             S1 == UpdateOne(S, id, res[id])
             entry == [tracker_id |-> id,
                       face_id |-> S1.tracked_faces[id].face_id,
                       bbox |-> S1.tracked_faces[id].bbox]
         IN UpdateLoop(S1, Tail(ids), res,
                       IF res[id].ok THEN Append(active, entry) ELSE active)

\* FaceTracker.update: the tracker after it, and the list it returns
Update(S, res) == UpdateLoop(S, SortedSeq(S.trackers), res, <<>>)

\* mutant: next_tracker_id is not incremented
add_face_same_id(S, bbox, face_id, init_ok) ==
    LET tracker_id == S.next_tracker_id
    IN IF init_ok
       THEN [S |-> [S EXCEPT !.trackers = S.trackers \cup {tracker_id},
                             !.tracked_faces = Store(S.tracked_faces, tracker_id,
                                 [face_id |-> face_id, bbox |-> bbox, lost_frames |-> 0])],
             id |-> tracker_id]
       ELSE [S |-> S, id |-> NoTracker]

\* mutant: the answer of tracker.init is not looked at
add_face_unchecked(S, bbox, face_id, init_ok) ==
    LET tracker_id == S.next_tracker_id
    IN [S |-> [S EXCEPT !.next_tracker_id = tracker_id + 1,
                        !.trackers = S.trackers \cup {tracker_id},
                        !.tracked_faces = Store(S.tracked_faces, tracker_id,
                            [face_id |-> face_id, bbox |-> bbox, lost_frames |-> 0])],
        id |-> tracker_id]

\* FaceTracker.add_face; init_ok is the answer of tracker.init
add_face(S, bbox, face_id, init_ok) ==
    LET tracker_id == S.next_tracker_id
        S1 == [S EXCEPT !.next_tracker_id = tracker_id + 1]
    IN IF init_ok
       THEN [S |-> [S1 EXCEPT !.trackers = S1.trackers \cup {tracker_id},
                              !.tracked_faces = Store(S1.tracked_faces, tracker_id,
                                  [face_id |-> face_id, bbox |-> bbox, lost_frames |-> 0])],
             id |-> tracker_id]
       ELSE [S |-> S1, id |-> NoTracker]

\* mutant: an absent tracker_id gets an entry
update_face_id_unchecked(S, tracker_id, face_id) ==
    IF tracker_id \in DOMAIN S.tracked_faces
    THEN [S EXCEPT !.tracked_faces[tracker_id].face_id = face_id]
    ELSE [S EXCEPT !.tracked_faces = Store(S.tracked_faces, tracker_id,
                      [face_id |-> face_id, bbox |-> <<0, 0, 0, 0>>, lost_frames |-> 0])]

update_face_id(S, tracker_id, face_id) ==
    IF tracker_id \in DOMAIN S.tracked_faces
    THEN [S EXCEPT !.tracked_faces[tracker_id].face_id = face_id]
    ELSE S

clear(S) ==
    [S EXCEPT !.trackers = {}, !.tracked_faces = <<>>, !.lost_trackers = <<>>,
              !.next_tracker_id = 0]

----------------------------------------------------------------------------
(* Recognizer, from its contract: resolve returns an identity minted       *)
(* earlier or None, mint returns an identity never returned before         *)

recognize_face(known, who) == IF who \in known THEN who ELSE None

register_new_face(known) == Cardinality(known) + 1

----------------------------------------------------------------------------
(* FacePipeline *)

\* mutant: the cadence test on the counter before its increment
ShouldDetectBeforeIncrement(count, skip) == (count - 1) % skip = 0

\* frame_count % detection_skip_frames == 0, frame_count already incremented
ShouldDetect(count, skip) == count % skip = 0

RECURSIVE MatchLoopKeepThreshold(_, _, _, _, _)
\* mutant: best_iou is not raised to the IoU of the match
MatchLoopKeepThreshold(bbox, tracked_list, i, best_iou, best_match) ==
    IF i > Len(tracked_list) THEN best_match
    ELSE LET iou == calculate_iou(bbox, tracked_list[i].bbox)
         IN IF FracGt(iou, best_iou)
            THEN MatchLoopKeepThreshold(bbox, tracked_list, i + 1, best_iou, i)
            ELSE MatchLoopKeepThreshold(bbox, tracked_list, i + 1, best_iou, best_match)

RECURSIVE MatchLoop(_, _, _, _, _)
\* the loop of _match_detection_to_tracker; best_match is an index into
\* tracked_list, 0 for None
MatchLoop(bbox, tracked_list, i, best_iou, best_match) ==
    IF i > Len(tracked_list) THEN best_match
    ELSE LET iou == calculate_iou(bbox, tracked_list[i].bbox)
         IN IF FracGt(iou, best_iou)
            THEN MatchLoop(bbox, tracked_list, i + 1, iou, i)
            ELSE MatchLoop(bbox, tracked_list, i + 1, best_iou, best_match)

\* mutant: an IoU of 0.5 is enough
match_detection_at_threshold(bbox, tracked_list) ==
    MatchLoop(bbox, tracked_list, 1, <<49, 100>>, 0)

match_detection_to_tracker(bbox, tracked_list) ==
    MatchLoop(bbox, tracked_list, 1, iou_threshold, 0)

\* mutant: the refresh of a matched detection is dropped
update_tracker_noop(S, tracked_face, bbox, t) == S

\* _update_tracker
update_tracker(S, tracked_face, bbox, t) ==
    LET face_id == tracked_face.face_id
    IN IF face_id \in FaceIds(S.current_faces)
       THEN [S EXCEPT !.current_faces = SetFace(S.current_faces,
                [FaceInfo(S.current_faces, face_id) EXCEPT !.bbox = bbox, !.last_seen = t])]
       ELSE S

\* mutant: an entry event only for a newly minted identity
LogEntryWhenMinted(S, face_id, minted, ok) ==
    IF minted THEN LogEvent(S, face_id, "entry", ok) ELSE S

\* the entry event of a new track
LogEntry(S, face_id, minted, ok) == LogEvent(S, face_id, "entry", ok)

\* mutant: the test of visitor_exists inverted
RegisterVisitorWhenExists(rows, face_id, ok) ==
    IF visitor_exists(rows, face_id) THEN add_visitor(rows, face_id, ok) ELSE rows

\* the visitor record of a newly minted identity
RegisterVisitor(rows, face_id, ok) ==
    IF ~visitor_exists(rows, face_id) THEN add_visitor(rows, face_id, ok) ELSE rows

\* mutant: a detection without an embedding is kept
AbandonedOnEmptyCrop(d) == CropSize(d.bbox) = 0

\* the two early returns of _process_new_face: the crop is empty, or
\* get_embedding returned None
Abandoned(d) == CropSize(d.bbox) = 0 \/ ~d.emb

\* d is one detection with the collaborators' answers for it: bbox, emb
\* (get_embedding returned a vector), who (the identity the recognizer
\* resolves it to, if it knows it), init (tracker.init succeeded), add_ok
\* and log_ok (the commits of add_visitor and log_event succeed), exc (the
\* call that raises an exception, "none" if none does)
new_face_body(S, d, t, maxTracks, maxIds) ==
    IF Abandoned(d) THEN S
    ELSE IF d.exc = "get_embedding" THEN Raise(S)
    ELSE LET resolved == recognize_face(S.known_faces, d.who)
             minted == resolved = None
             face_id == IF minted THEN register_new_face(S.known_faces) ELSE resolved
             S1 == IF minted
                   THEN [S EXCEPT !.known_faces = S.known_faces \cup {face_id},
                                  !.visitors = RegisterVisitor(S.visitors, face_id, d.add_ok),
                                  !.total_visits = visits_after_add(S.total_visits,
                                      S.visitors, face_id, d.add_ok),
                                  !.valid = S.valid /\ Cardinality(S.known_faces) < maxIds]
                   ELSE S
             added == add_face(S1, d.bbox, face_id, d.init)
             S2 == [added.S EXCEPT !.valid = S1.valid /\ S1.next_tracker_id < maxTracks]
         IN IF added.id # NoTracker
            THEN IF d.exc = "log_event" THEN Raise(S2)
                 ELSE [LogEntry(S2, face_id, minted, d.log_ok) EXCEPT
                         !.current_faces = SetFace(S2.current_faces,
                             [face_id |-> face_id, bbox |-> d.bbox,
                              last_seen |-> t, tracker_id |-> added.id])]
            ELSE S2

\* _process_new_face: its body runs inside try ... except Exception
process_new_face(S, d, t, maxTracks, maxIds) ==
    Catch(new_face_body(S, d, t, maxTracks, maxIds))

RECURSIVE process_detections_exclusive(_, _, _, _, _, _)
\* mutant: a track matched by a detection is withdrawn from the candidates
\* of the detections after it
process_detections_exclusive(S, detected_faces, tracked_list, t, maxTracks, maxIds) ==
    IF detected_faces = <<>> \/ S.raised THEN S
    ELSE LET d == Head(detected_faces)
             m == match_detection_to_tracker(d.bbox, tracked_list)
             S1 == IF m = 0
                   THEN process_new_face(S, d, t, maxTracks, maxIds)
                   ELSE update_tracker(S, tracked_list[m], d.bbox, t)
             note == [d |-> d,
                      matched |-> IF m = 0 THEN NoTracker ELSE tracked_list[m].tracker_id,
                      new_face |-> m = 0,
                      changed |-> {k \in DOMAIN View(S) : View(S)[k] # View(S1)[k]}]
         IN process_detections_exclusive(
                [S1 EXCEPT !.handled = Append(S.handled, note)],
                Tail(detected_faces),
                IF m = 0 THEN tracked_list
                ELSE SelectSeq(tracked_list,
                               LAMBDA e : e.tracker_id # tracked_list[m].tracker_id),
                t, maxTracks, maxIds)

RECURSIVE process_detections(_, _, _, _, _, _)
\* handled notes, for every detection, the track it was matched to, whether
\* _process_new_face was called for it, and the fields its handling changed
process_detections(S, detected_faces, tracked_list, t, maxTracks, maxIds) ==
    IF detected_faces = <<>> \/ S.raised THEN S
    ELSE LET d == Head(detected_faces)
             m == match_detection_to_tracker(d.bbox, tracked_list)
             S1 == IF m = 0
                   THEN process_new_face(S, d, t, maxTracks, maxIds)
                   ELSE update_tracker(S, tracked_list[m], d.bbox, t)
             note == [d |-> d,
                      matched |-> IF m = 0 THEN NoTracker ELSE tracked_list[m].tracker_id,
                      new_face |-> m = 0,
                      changed |-> {k \in DOMAIN View(S) : View(S)[k] # View(S1)[k]}]
         IN process_detections([S1 EXCEPT !.handled = Append(S.handled, note)],
                               Tail(detected_faces), tracked_list, t, maxTracks, maxIds)

\* self.database.update_visitor_last_seen(face_id), noted in touches: it
\* touches the visitor's row only, and returns True when there is a row and
\* the commit succeeds (ok)
UpdateVisitorLastSeen(S, face_id, ok) ==
    LET R == update_visitor_last_seen(S.total_visits, S.visitors, face_id, ok)
    IN [S EXCEPT !.touches = Append(S.touches,
                                  [face_id |-> face_id, ok |-> R.returned]),
                 !.total_visits = R.visits]

RECURSIVE process_tracked_faces(_, _, _, _)
\* seen_fail: the identities for which update_visitor_last_seen fails to
\* commit
process_tracked_faces(S, tracked_list, t, seen_fail) ==
    IF tracked_list = <<>> \/ S.raised THEN S
    ELSE LET tracked == Head(tracked_list)
             face_id == tracked.face_id
             S0 == IF face_id # None
                   THEN UpdateVisitorLastSeen(S, face_id, face_id \notin seen_fail)
                   ELSE S
             S1 == IF face_id # None /\ face_id \in FaceIds(S0.current_faces)
                   THEN [S0 EXCEPT !.current_faces = SetFace(S0.current_faces,
                            [FaceInfo(S0.current_faces, face_id) EXCEPT
                                !.bbox = tracked.bbox, !.last_seen = t])]
                   ELSE S0
         IN process_tracked_faces(S1, Tail(tracked_list), t, seen_fail)

\* mutant: the ActiveVisitor is kept after its exit event is logged
face_exit_body_keep(S, face_id, face_info, log) ==
    IF CropSize(face_info.bbox) > 0
    THEN IF log = "raise" THEN Raise(S)
         ELSE LogEvent(S, face_id, "exit", log = "ok")
    ELSE S

\* mutant: the ActiveVisitor is kept when the exit event is not committed
face_exit_body_rollback(S, face_id, face_info, log) ==
    LET S1 == IF CropSize(face_info.bbox) > 0
              THEN IF log = "raise" THEN Raise(S)
                   ELSE LogEvent(S, face_id, "exit", log = "ok")
              ELSE S
    IN IF S1.raised \/ log = "fail" THEN S1
       ELSE [S1 EXCEPT !.current_faces = DelFace(S1.current_faces, face_id)]

\* log: what log_event does, "ok" (commits), "fail" (returns False) or
\* "raise" (raises an exception)
face_exit_body(S, face_id, face_info, log) ==
    LET S1 == IF CropSize(face_info.bbox) > 0
              THEN IF log = "raise" THEN Raise(S)
                   ELSE LogEvent(S, face_id, "exit", log = "ok")
              ELSE S
    IN IF S1.raised THEN S1
       ELSE [S1 EXCEPT !.current_faces = DelFace(S1.current_faces, face_id)]

\* _process_face_exit: its body runs inside try ... except Exception
process_face_exit(S, face_id, face_info, log) ==
    Catch(face_exit_body(S, face_id, face_info, log))

RECURSIVE ExitLoop(_, _, _, _, _)
\* the loop of _check_face_exits over list(self.current_faces.items());
\* exit_fail: the identities whose exit event the store fails to commit;
\* exit_raise: those for which log_event raises
ExitLoop(S, items, current_time, exit_fail, exit_raise) ==
    IF items = <<>> \/ S.raised THEN S
    ELSE LET face_info == Head(items)
             S1 == IF Stale(face_info, current_time)
                   THEN process_face_exit(S, face_info.face_id, face_info,
                            IF face_info.face_id \in exit_raise THEN "raise"
                            ELSE IF face_info.face_id \in exit_fail THEN "fail"
                            ELSE "ok")
                   ELSE S
         IN ExitLoop(S1, Tail(items), current_time, exit_fail, exit_raise)

check_face_exits(S, current_time, exit_fail, exit_raise) ==
    IF S.raised THEN S
    ELSE ExitLoop(S, S.current_faces, current_time, exit_fail, exit_raise)

\* the body of process_frame after the increment of frame_count, on the
\* fields S. env is what the collaborators answer: res (the low-level
\* trackers), dets (the detector, the recognizer, tracker.init and the store
\* for each detection), lag (seconds between the refreshes and the sweep's
\* reading of the clock), seen_fail, exit_fail, exit_raise. Returns the fields after
\* the call, the list update returned and the fields as the sweep found them
process_frame(S, env, detect, t, maxTracks, maxIds) ==
    LET U == Update(S, env.res)
        S1 == IF detect
              THEN process_detections(U.S, env.dets, U.active, t, maxTracks, maxIds)
              ELSE U.S
        S2 == process_tracked_faces(S1, U.active, t, env.seen_fail)
        S3 == check_face_exits(S2, t + env.lag, env.exit_fail, env.exit_raise)
    IN [S |-> Catch(S3), active |-> U.active, updated |-> U.S, before_sweep |-> S2]

----------------------------------------------------------------------------
(* The state machine *)

Init ==
    /\ frame_count = 0
    /\ detection_skip_frames \in 1..MaxSkip
    /\ trackers = {}
    /\ tracked_faces = <<>>
    /\ lost_trackers = <<>>
    /\ next_tracker_id = 0
    /\ current_faces = <<>>
    /\ known_faces = {}
    /\ visitors = <<>>
    /\ events = <<>>
    /\ total_visits = NotFollowed
    /\ now = 0
    /\ last = [op |-> "init", detect |-> FALSE, active |-> <<>>, updated_ok |-> {},
               exit_raised |-> {}, evicted |-> {},
               exited |-> {}, swept |-> {}, calls |-> <<>>, touches |-> <<>>,
               sweep |-> FALSE,
               lag |-> 0, handled |-> <<>>, detected |-> <<>>]

Current ==
    [trackers |-> trackers, tracked_faces |-> tracked_faces,
     lost_trackers |-> lost_trackers, next_tracker_id |-> next_tracker_id,
     current_faces |-> current_faces, known_faces |-> known_faces,
     visitors |-> visitors, events |-> events, total_visits |-> total_visits,
     calls |-> <<>>, touches |-> <<>>,
     handled |-> <<>>,
     raised |-> FALSE, valid |-> TRUE]

\* a track update removes in this frame, with its two failure counts as
\* they stand when it is removed
EvictedInfo(id) ==
    [tracker_id |-> id, face_id |-> tracked_faces[id].face_id,
     lost_frames |-> tracked_faces[id].lost_frames + 1,
     lost |-> LostCount(lost_trackers, id) + 1]

\* FacePipeline.process_frame. env.dt: seconds since the previous frame. An
\* exception that leaves process_frame ends the frame loop ("crashed").
\* last records the call: detect (the detector was invoked), active (the
\* list update returned), updated_ok (the tracks whose low-level update
\* succeeded), exit_raised (env.exit_raise), evicted (the tracks update removed), exited (the
\* identities the staleness sweep exit-processed), swept (their
\* ActiveVisitor entries as the sweep found them), calls (its log_event
\* calls), touches (its update_visitor_last_seen calls), sweep (the sweep was reached), lag (env.lag), and, kept when
\* noted, handled (what it did with each detection) and detected (what the
\* detector returned)
ProcessFrameIn(env, noted, maxTracks, maxIds) ==
    LET t == now + env.dt
        count == frame_count + 1
        detect == ShouldDetect(count, detection_skip_frames)
    IN \E R \in {process_frame(Current, env, detect, t, maxTracks, maxIds)} :
       \E S2 \in {R.before_sweep} : \E S3 \in {R.S} :
          /\ last.op # "crashed"
          /\ S3.valid
          /\ frame_count' = count
          /\ now' = t + env.lag
          /\ trackers' = S3.trackers
          /\ tracked_faces' = S3.tracked_faces
          /\ lost_trackers' = S3.lost_trackers
          /\ next_tracker_id' = S3.next_tracker_id
          /\ current_faces' = S3.current_faces
          /\ known_faces' = S3.known_faces
          /\ visitors' = S3.visitors
          /\ events' = S3.events
          /\ total_visits' = S3.total_visits
          /\ last' = [op |-> IF S3.raised THEN "crashed" ELSE "process_frame",
                      detect |-> detect, active |-> R.active,
                      updated_ok |-> {id \in trackers : env.res[id].ok},
                      exit_raised |-> env.exit_raise,
                      evicted |-> {EvictedInfo(id) : id \in trackers \ R.updated.trackers},
                      exited |-> FaceIds(S2.current_faces) \ FaceIds(S3.current_faces),
                      swept |-> {S2.current_faces[i] : i \in
                                    {j \in 1..Len(S2.current_faces) :
                                        S2.current_faces[j].face_id
                                            \notin FaceIds(S3.current_faces)}},
                      calls |-> S3.calls, touches |-> S3.touches, sweep |-> ~S2.raised, lag |-> env.lag,
                      handled |-> IF noted THEN S3.handled ELSE <<>>,
                      detected |-> IF noted /\ detect THEN env.dets ELSE <<>>]
          /\ UNCHANGED detection_skip_frames

\* process_frame when nothing raises and the sweep reads the clock the
\* refreshes read
ProcessFrame(dt, res, dets, exit_fail, noted, maxTracks, maxIds) ==
    ProcessFrameIn([dt |-> dt, lag |-> 0, res |-> res, dets |-> dets,
                    seen_fail |-> {}, exit_fail |-> exit_fail, exit_raise |-> {}],
                   noted, maxTracks, maxIds)

\* the identities of the tracks of the registry
TrackFaceIds == {tracked_faces[t].face_id : t \in DOMAIN tracked_faces}

Failed == [ok |-> FALSE, rect |-> <<0, 0, 0, 0>>]

Outcomes == {Failed} \cup {[ok |-> TRUE, rect |-> r] : r \in TrackRects}

\* the answers for one detection; those that are not asked for are fixed
Answers(boxes, ids, add_oks, log_oks) ==
    {d \in [bbox : boxes, emb : BOOLEAN, who : ids, init : BOOLEAN,
            add_ok : add_oks, log_ok : log_oks, exc : {"none"}] :
        /\ d.emb \/ (d.who = None /\ d.init)
        /\ d.add_ok \/ (d.emb /\ d.who = None)
        /\ d.log_ok \/ (d.emb /\ d.init)}

\* the store commits every write
DetInputs == Answers(DetBoxes, 0..MaxIds, {TRUE}, {TRUE})

\* the store may fail to commit; for a detection with an empty crop no
\* other answer is asked for
FaultyDetInputs ==
    {d \in Answers({BoxA, BoxZ}, 0..MaxIds, {TRUE}, BOOLEAN) :
        CropSize(d.bbox) = 0 => (d.emb /\ d.who = None /\ d.init /\ d.log_ok)}

\* what the detector and the recognizer can answer in the next frame: the
\* detector is not invoked off cadence, and the recognizer resolves a
\* detection only to an identity minted before that detection is handled
DetChoices(inputs) ==
    IF ShouldDetect(frame_count + 1, detection_skip_frames)
    THEN {dets \in {<<>>} \cup {<<d>> : d \in inputs} :
            \A i \in 1..Len(dets) : dets[i].who <= Cardinality(known_faces) + (i - 1)}
    ELSE {<<>>}

\* as DetChoices, the detector returning up to two boxes
PairChoices(inputs) ==
    IF ShouldDetect(frame_count + 1, detection_skip_frames)
    THEN {dets \in {<<>>} \cup {<<d>> : d \in inputs}
                          \cup {<<d1, d2>> : d1 \in inputs, d2 \in inputs} :
            \A i \in 1..Len(dets) : dets[i].who <= Cardinality(known_faces) + (i - 1)}
    ELSE {<<>>}

\* seconds between two frames
Dts == {0, 2, 3}

DtChoices == {dt \in Dts : now + dt <= MaxTime}

\* a frame of the broad environment: at most one detection
Frame ==
    /\ frame_count < MaxFrames
    /\ \E dt \in DtChoices : \E dets \in DetChoices(DetInputs) :
       \E res \in [trackers -> Outcomes] :
          ProcessFrame(dt, res, dets, {}, FALSE, MaxTracks, MaxIds)

Next == Frame

Spec == Init /\ [][Next]_vars

LongDets == {d \in Answers({BoxA}, 0..LongIds, {TRUE}, {TRUE}) : d.emb /\ d.init}

\* the low-level trackers' answers in a long run: every update fails from
\* frame LongOkUntil + 1 on
LongOutcomes == IF frame_count + 1 <= LongOkUntil THEN Outcomes ELSE {Failed}

\* a frame of a long run of one track
LongFrame ==
    /\ frame_count < LongFrames
    /\ \E dt \in DtChoices \ {2} : \E dets \in DetChoices(LongDets) :
       \E res \in [trackers -> LongOutcomes] :
          ProcessFrame(dt, res, dets, {}, FALSE, LongTracks, LongIds)

NextLong == LongFrame

SpecLong == Init /\ [][NextLong]_vars

\* a frame in which the store may fail to commit the entry event of the
\* detection and the exit events of the sweep
FaultyFrame ==
    /\ frame_count < MaxFrames
    /\ \E dt \in DtChoices : \E dets \in DetChoices(FaultyDetInputs) :
       \E res \in [trackers -> Outcomes] :
       \E exit_fail \in SUBSET {f \in FaceIds(current_faces) :
                                  Stale(FaceInfo(current_faces, f), now + dt)} :
          ProcessFrame(dt, res, dets, exit_fail, FALSE, MaxTracks, MaxIds)

NextFaulty == FaultyFrame

SpecFaulty == Init /\ [][NextFaulty]_vars

\* rectangles (x, y, w, h) of the low-level trackers when detections are
\* followed: BoxA, and two whose IoU with BoxA is 2/3 and exactly 1/2
DetectRects == {<<0, 0, 2, 2>>, <<0, 0, 2, 3>>, <<0, 0, 2, 4>>}

DetectOutcomes == {Failed} \cup {[ok |-> TRUE, rect |-> r] : r \in DetectRects}

DetectInputs == Answers({BoxA, BoxZ}, 0..MaxIds, {TRUE}, {TRUE})

\* a frame in which what becomes of each detection is noted: at most one
\* detection
DetectFrame ==
    /\ frame_count < MaxFrames
    /\ \E dt \in DtChoices \ {2} : \E dets \in DetChoices(DetectInputs) :
       \E res \in [trackers -> DetectOutcomes] :
          ProcessFrame(dt, res, dets, {}, TRUE, MaxTracks, MaxIds)

NextDetect == DetectFrame

SpecDetect == Init /\ [][NextDetect]_vars

\* every detection has an embedding and is unknown to the recognizer
PairInputs == {d \in Answers({BoxA, BoxB}, {None}, {TRUE}, {TRUE}) : d.emb}

\* a frame in which the detector returns up to two boxes
PairFrame ==
    /\ frame_count < PairFrames
    /\ \E dt \in DtChoices \ {2} : \E dets \in PairChoices(PairInputs) :
       \E res \in [trackers -> {Failed, [ok |-> TRUE, rect |-> <<0, 0, 2, 2>>]}] :
          ProcessFrame(dt, res, dets, {}, TRUE, PairTracks, MaxIds)

NextPair == PairFrame

SpecPair == Init /\ [][NextPair]_vars

----------------------------------------------------------------------------
(* The stream stops: main calls FacePipeline.cleanup once process_video    *)
(* has returned, and no frame is processed after it                        *)

\* self.database.close(): the session factory is left as it is, and so are
\* current_faces and the tracker
cleanup(S) == S

Cleanup ==
    /\ last.op # "cleanup"
    /\ \E S \in {cleanup(Current)} :
          /\ trackers' = S.trackers
          /\ tracked_faces' = S.tracked_faces
          /\ lost_trackers' = S.lost_trackers
          /\ next_tracker_id' = S.next_tracker_id
          /\ current_faces' = S.current_faces
          /\ known_faces' = S.known_faces
          /\ visitors' = S.visitors
          /\ events' = S.events
          /\ total_visits' = S.total_visits
          /\ last' = [last EXCEPT !.op = "cleanup", !.calls = S.calls]
    /\ UNCHANGED <<frame_count, detection_skip_frames, now>>

StopFrame == last.op # "cleanup" /\ DetectFrame

NextStop == StopFrame \/ Cleanup

SpecStop == Init /\ [][NextStop]_vars

----------------------------------------------------------------------------
(* The FaceTracker on its own: its methods called in any order. last keeps *)
(* op (the method called), arg (the track id remove_tracker was called     *)
(* with, the track id and the identity update_face_id was called with,     *)
(* None for the other methods), n (the calls so far) and                   *)
(* returned (the ids add_face has returned so far, in order)               *)

TrackerInit ==
    /\ frame_count = 0
    /\ detection_skip_frames = 1
    /\ trackers = {}
    /\ tracked_faces = <<>>
    /\ lost_trackers = <<>>
    /\ next_tracker_id = 0
    /\ current_faces = <<>>
    /\ known_faces = {}
    /\ visitors = <<>>
    /\ events = <<>>
    /\ total_visits = NotFollowed
    /\ now = 0
    /\ last = [op |-> "init", arg |-> None, n |-> 0, returned |-> <<>>]

\* the tracker's fields become those of S; returned is the new list of ids
TrackerCall(op, arg, S, returned) ==
    /\ last.n < TrackerCalls
    /\ trackers' = S.trackers
    /\ tracked_faces' = S.tracked_faces
    /\ lost_trackers' = S.lost_trackers
    /\ next_tracker_id' = S.next_tracker_id
    /\ last' = [op |-> op, arg |-> arg, n |-> last.n + 1, returned |-> returned]
    /\ UNCHANGED <<frame_count, detection_skip_frames, current_faces, known_faces,
                   visitors, events, total_visits, now>>

AddFace ==
    \E bbox \in {BoxA, BoxB} : \E face_id \in {None, 1} : \E init_ok \in BOOLEAN :
    \E added \in {add_face(Current, bbox, face_id, init_ok)} :
        TrackerCall("add_face", None, added.S,
                    IF added.id = NoTracker THEN last.returned
                    ELSE Append(last.returned, added.id))

UpdateAll ==
    \E res \in [trackers -> {Failed, [ok |-> TRUE, rect |-> <<0, 0, 2, 2>>]}] :
        TrackerCall("update", None, Update(Current, res).S, last.returned)

RemoveTracker ==
    \E tracker_id \in 0..next_tracker_id :
        TrackerCall("remove_tracker", tracker_id, remove_tracker(Current, tracker_id),
                    last.returned)

UpdateFaceId ==
    \E tracker_id \in 0..next_tracker_id : \E face_id \in {1, 2} :
        TrackerCall("update_face_id", <<tracker_id, face_id>>, update_face_id(Current, tracker_id, face_id),
                    last.returned)

Clear == TrackerCall("clear", None, clear(Current), last.returned)

NextTracker == AddFace \/ UpdateAll \/ RemoveTracker \/ UpdateFaceId \/ Clear

SpecTracker == TrackerInit /\ [][NextTracker]_vars

----------------------------------------------------------------------------
(* _match_detection_to_tracker on its own: a detection and a list of       *)
(* tracks are drawn, then the matcher is applied to them                   *)

\* the detections handed to the matcher
MatchDets == {<<0, 0, 4, 1>>, <<1, 0, 5, 1>>}

\* boxes of the tracks; their IoU with the first detection is 1, 2/3, 3/5,
\* 1/2, 3/10 and 0
MatchBoxes ==
    {<<0, 0, 4, 1>>, <<0, 0, 6, 1>>, <<1, 0, 5, 1>>, <<0, 0, 2, 1>>,
     <<1, 0, 10, 1>>, <<4, 0, 6, 1>>}

\* the lists update can return for n tracks at these boxes
MatchLists(n) ==
    {[i \in 1..n |-> [tracker_id |-> i - 1, face_id |-> i, bbox |-> boxes[i]]] :
        boxes \in [1..n -> MatchBoxes]}

MatchInit ==
    /\ frame_count = 0
    /\ detection_skip_frames = 1
    /\ trackers = {}
    /\ tracked_faces = <<>>
    /\ lost_trackers = <<>>
    /\ next_tracker_id = 0
    /\ current_faces = <<>>
    /\ known_faces = {}
    /\ visitors = <<>>
    /\ events = <<>>
    /\ total_visits = NotFollowed
    /\ now = 0
    /\ \E bbox \in MatchDets : \E n \in 0..MatchCands :
       \E tracked_list \in MatchLists(n) :
          last = [op |-> "input", bbox |-> bbox, tracked_list |-> tracked_list]

\* best_match is the index of the track returned, 0 for None
MatchDetection ==
    /\ last.op = "input"
    /\ last' = [op |-> "_match_detection_to_tracker", bbox |-> last.bbox,
                tracked_list |-> last.tracked_list,
                best_match |-> match_detection_to_tracker(last.bbox, last.tracked_list)]
    /\ UNCHANGED <<frame_count, detection_skip_frames, trackers, tracked_faces,
                   lost_trackers, next_tracker_id, current_faces, known_faces,
                   visitors, events, total_visits, now>>

NextMatch == MatchDetection

SpecMatch == MatchInit /\ [][NextMatch]_vars

-----------------------------------------------------------------------------
(* calculate_iou on its own: two boxes are drawn, then it is applied to    *)
(* them in both orders and to the first box and itself                     *)

\* the boxes (x1, y1, x2, y2) with x1 <= x2 and y1 <= y2 on the grid
IouBoxes ==
    {b \in (0..IouMax) \X (0..IouMax) \X (0..IouMax) \X (0..IouMax) :
        b[1] <= b[3] /\ b[2] <= b[4]}

IouInit ==
    /\ frame_count = 0
    /\ detection_skip_frames = 1
    /\ trackers = {}
    /\ tracked_faces = <<>>
    /\ lost_trackers = <<>>
    /\ next_tracker_id = 0
    /\ current_faces = <<>>
    /\ known_faces = {}
    /\ visitors = <<>>
    /\ events = <<>>
    /\ total_visits = NotFollowed
    /\ now = 0
    /\ \E box1 \in IouBoxes : \E box2 \in IouBoxes :
          last = [op |-> "input", box1 |-> box1, box2 |-> box2]

CalculateIou ==
    /\ last.op = "input"
    /\ last' = [op |-> "calculate_iou", box1 |-> last.box1, box2 |-> last.box2,
                iou |-> calculate_iou(last.box1, last.box2),
                swapped |-> calculate_iou(last.box2, last.box1),
                self |-> calculate_iou(last.box1, last.box1)]
    /\ UNCHANGED <<frame_count, detection_skip_frames, trackers, tracked_faces,
                   lost_trackers, next_tracker_id, current_faces, known_faces,
                   visitors, events, total_visits, now>>

NextIou == CalculateIou

SpecIou == IouInit /\ [][NextIou]_vars

-----------------------------------------------------------------------------
(* Frames that take time: the clock the staleness sweep reads is env.lag   *)
(* seconds past the clock the refreshes of the frame read                  *)

\* seconds between the refreshes of a frame and its sweep
Lags == {0, 2, 3}

LagInputs == {d \in Answers({BoxA}, 0..MaxIds, {TRUE}, {TRUE}) : d.emb}

LagFrame ==
    /\ frame_count < MaxFrames
    /\ \E dt \in Dts : \E lag \in Lags : \E dets \in DetChoices(LagInputs) :
       \E res \in [trackers -> {Failed, [ok |-> TRUE, rect |-> <<0, 0, 2, 2>>]}] :
          /\ now + dt + lag <= LagTime
          /\ ProcessFrameIn([dt |-> dt, lag |-> lag, res |-> res, dets |-> dets,
                             seen_fail |-> {}, exit_fail |-> {}, exit_raise |-> {}],
                            FALSE, MaxTracks, MaxIds)

NextLag == LagFrame

SpecLag == Init /\ [][NextLag]_vars

-----------------------------------------------------------------------------
(* Frames with a store whose writes may fail: add_visitor, log_event (of   *)
(* an entry and of an exit) and update_visitor_last_seen return False      *)

StoreInputs ==
    {d \in Answers({BoxA}, 0..StoreIds, BOOLEAN, BOOLEAN) : d.emb /\ d.init}

\* what the collaborators can answer in a frame dt seconds after this one;
\* update_visitor_last_seen fails for every identity or for none, and so
\* does the log_event of the exits
StoreEnvs(dt) ==
    {[dt |-> dt, lag |-> 0, res |-> res, dets |-> dets, seen_fail |-> seen_fail,
      exit_fail |-> exit_fail, exit_raise |-> {}] :
        res \in [trackers -> {Failed, [ok |-> TRUE, rect |-> <<0, 0, 2, 2>>]}],
        dets \in DetChoices(StoreInputs),
        seen_fail \in {{}, TrackFaceIds},
        exit_fail \in {{}, FaceIds(current_faces)}}

StoreFrame ==
    /\ frame_count < StoreFrames
    /\ \E dt \in DtChoices \ {2} : \E env \in StoreEnvs(dt) :
          ProcessFrameIn(env, FALSE, StoreTracks, StoreIds)

NextStore == StoreFrame

SpecStore == Init /\ [][NextStore]_vars

-----------------------------------------------------------------------------
(* Frames in which handling a detection or an exit may fail: an empty      *)
(* crop, no embedding, tracker.init failing, an exception raised by        *)
(* get_embedding, by log_event of the entry or by log_event of the exit    *)

\* a detection of an unknown face that nothing goes wrong with
Healthy(bbox) ==
    [bbox |-> bbox, emb |-> TRUE, who |-> None, init |-> TRUE, add_ok |-> TRUE,
     log_ok |-> TRUE, exc |-> "none"]

FailInputs ==
    {Healthy(BoxA), Healthy(BoxB), Healthy(BoxZ),
     [Healthy(BoxA) EXCEPT !.emb = FALSE],
     [Healthy(BoxA) EXCEPT !.init = FALSE],
     [Healthy(BoxA) EXCEPT !.exc = "get_embedding"],
     [Healthy(BoxB) EXCEPT !.exc = "log_event"]}

\* the detector returns up to two boxes; nothing goes wrong with the second
FailChoices ==
    IF ShouldDetect(frame_count + 1, detection_skip_frames)
    THEN {<<>>} \cup {<<d>> : d \in FailInputs}
                \cup {<<d1, d2>> : d1 \in FailInputs,
                                   d2 \in {Healthy(BoxA), Healthy(BoxB)}}
    ELSE {<<>>}

\* the exit processing of at most one identity raises, one that was stale
\* when the frame began
FailFrame ==
    /\ frame_count < FailFrames
    /\ \E dt \in DtChoices \ {2} : \E dets \in FailChoices :
       \E res \in [trackers -> {Failed, [ok |-> TRUE, rect |-> <<0, 0, 2, 2>>]}] :
       \E exit_raise \in {{}} \cup {{f} : f \in
                            {g \in FaceIds(current_faces) :
                                Stale(FaceInfo(current_faces, g), now + dt)}} :
          ProcessFrameIn([dt |-> dt, lag |-> 0, res |-> res, dets |-> dets,
                          seen_fail |-> {}, exit_fail |-> {},
                          exit_raise |-> exit_raise],
                         TRUE, FailTracks, FailIds)

NextFail == FailFrame

SpecFail == Init /\ [][NextFail]_vars

-----------------------------------------------------------------------------
(* Two FacePipeline objects built from one configuration, each fed the     *)
(* frames of its own stream, their calls interleaved in any order. In      *)
(* this specification the variables of the pipeline's fields are functions *)
(* of the pipeline, those of the tracker's fields functions of the tracker *)
(* object, and the store (one database_path) is one; last records the      *)
(* call (op, p) and the pipelines cleanup was called for (stopped)         *)

Pipes == {1, 2}

\* mutant: one tracker object serves both pipelines
TrackerShared(p) == 1

\* self.tracker = FaceTracker(): a tracker object of the pipeline's own
TrackerOf(p) == p

TwoInit ==
    /\ frame_count = [p \in Pipes |-> 0]
    /\ detection_skip_frames = [p \in Pipes |-> 1]
    /\ trackers = [k \in Pipes |-> {}]
    /\ tracked_faces = [k \in Pipes |-> <<>>]
    /\ lost_trackers = [k \in Pipes |-> <<>>]
    /\ next_tracker_id = [k \in Pipes |-> 0]
    /\ current_faces = [p \in Pipes |-> <<>>]
    /\ known_faces = [p \in Pipes |-> {}]
    /\ visitors = <<>>
    /\ events = <<>>
    /\ total_visits = NotFollowed
    /\ now = 0
    /\ last = [op |-> "init", p |-> 0, stopped |-> {}]

\* the fields pipeline p works on
CurrentOf(p) ==
    [trackers |-> trackers[TrackerOf(p)],
     tracked_faces |-> tracked_faces[TrackerOf(p)],
     lost_trackers |-> lost_trackers[TrackerOf(p)],
     next_tracker_id |-> next_tracker_id[TrackerOf(p)],
     current_faces |-> current_faces[p], known_faces |-> known_faces[p],
     visitors |-> visitors, events |-> events, total_visits |-> total_visits,
     calls |-> <<>>, touches |-> <<>>,
     handled |-> <<>>, raised |-> FALSE, valid |-> TRUE]

\* pipeline p's fields become those of S
TwoCall(op, p, S) ==
    /\ trackers' = [trackers EXCEPT ![TrackerOf(p)] = S.trackers]
    /\ tracked_faces' = [tracked_faces EXCEPT ![TrackerOf(p)] = S.tracked_faces]
    /\ lost_trackers' = [lost_trackers EXCEPT ![TrackerOf(p)] = S.lost_trackers]
    /\ next_tracker_id' = [next_tracker_id EXCEPT ![TrackerOf(p)] = S.next_tracker_id]
    /\ current_faces' = [current_faces EXCEPT ![p] = S.current_faces]
    /\ known_faces' = [known_faces EXCEPT ![p] = S.known_faces]
    /\ visitors' = S.visitors
    /\ events' = S.events
    /\ total_visits' = S.total_visits
    /\ last' = [op |-> op, p |-> p,
                stopped |-> IF op = "cleanup" THEN last.stopped \cup {p}
                            ELSE last.stopped]
    /\ UNCHANGED detection_skip_frames

TwoInputs == {d \in Answers({BoxA}, 0..TwoIds, {TRUE}, {TRUE}) : d.emb /\ d.init}

\* process_frame of pipeline p
TwoFrame(p) ==
    /\ p \notin last.stopped
    /\ frame_count[p] < TwoFrames
    /\ \E dt \in DtChoices \ {2} :
       \E dets \in {<<>>} \cup
                   {<<d>> : d \in {e \in TwoInputs :
                                     e.who <= Cardinality(known_faces[p])}} :
       \E res \in [trackers[TrackerOf(p)] ->
                      {Failed, [ok |-> TRUE, rect |-> <<0, 0, 2, 2>>]}] :
       \E R \in {process_frame(CurrentOf(p),
                     [dt |-> dt, lag |-> 0, res |-> res, dets |-> dets,
                      seen_fail |-> {}, exit_fail |-> {}, exit_raise |-> {}],
                     ShouldDetect(frame_count[p] + 1, detection_skip_frames[p]),
                     now + dt, TwoTracks, TwoIds)} :
          /\ R.S.valid
          /\ frame_count' = [frame_count EXCEPT ![p] = @ + 1]
          /\ now' = now + dt
          /\ TwoCall("process_frame", p, R.S)

\* cleanup of pipeline p
TwoCleanup(p) ==
    /\ p \notin last.stopped
    /\ TwoCall("cleanup", p, cleanup(CurrentOf(p)))
    /\ UNCHANGED <<frame_count, now>>

NextTwo == \E p \in Pipes : TwoFrame(p) \/ TwoCleanup(p)

SpecTwo == TwoInit /\ [][NextTwo]_vars

-----------------------------------------------------------------------------
(* The FaceTracker on its own in long runs: its methods are called in any  *)
(* order and any number of times. The low-level update of the oldest live *)
(* track succeeds only while it has failed fewer than RegOkUntil times; an *)
(* update of another track fails only while it has failed fewer than       *)
(* RegOkUntil times; at most RegIds ids are handed out between two calls   *)
(* of clear                                                                *)

\* a call of a method of the tracker; the calls are not counted
RegistryCall(op, arg, S) ==
    /\ trackers' = S.trackers
    /\ tracked_faces' = S.tracked_faces
    /\ lost_trackers' = S.lost_trackers
    /\ next_tracker_id' = S.next_tracker_id
    /\ last' = [op |-> op, arg |-> arg, n |-> 0, returned |-> <<>>]
    /\ UNCHANGED <<frame_count, detection_skip_frames, current_faces, known_faces,
                   visitors, events, total_visits, now>>

RegAddFace ==
    /\ next_tracker_id < RegIds
    /\ \E init_ok \in BOOLEAN :
          RegistryCall("add_face", None, add_face(Current, BoxA, 1, init_ok).S)

RegUpdate ==
    \E res \in [trackers -> {Failed, [ok |-> TRUE, rect |-> <<0, 0, 2, 2>>]}] :
        /\ \A id \in trackers :
              (res[id].ok = (\A other \in trackers : id <= other))
                  => LostCount(lost_trackers, id) < RegOkUntil
        /\ RegistryCall("update", None, Update(Current, res).S)

RegRemove ==
    \E tracker_id \in 0..next_tracker_id :
        RegistryCall("remove_tracker", tracker_id, remove_tracker(Current, tracker_id))

RegUpdateFaceId ==
    \E tracker_id \in 0..next_tracker_id :
        RegistryCall("update_face_id", <<tracker_id, 2>>,
                     update_face_id(Current, tracker_id, 2))

RegClear == RegistryCall("clear", None, clear(Current))

NextRegistry == RegAddFace \/ RegUpdate \/ RegRemove \/ RegUpdateFaceId \/ RegClear

SpecRegistry == TrackerInit /\ [][NextRegistry]_vars

----------------------------------------------------------------------------
(* The Database on its own: add_visitor, log_event and get_visitor_stats   *)
(* are called in any order, for DbIds face_ids, until the events table     *)
(* holds DbEvents rows; a commit of log_event may fail                     *)

\* event types: the two the pipeline logs, and one it does not
EventTypes == {"entry", "exit", "other"}

DbInit ==
    /\ frame_count = 0
    /\ detection_skip_frames = 1
    /\ trackers = {}
    /\ tracked_faces = <<>>
    /\ lost_trackers = <<>>
    /\ next_tracker_id = 0
    /\ current_faces = <<>>
    /\ known_faces = {}
    /\ visitors = <<>>
    /\ events = <<>>
    /\ total_visits = <<>>
    /\ now = 0
    /\ last = [op |-> "init", arg |-> None, returned |-> None]

\* a call of a method of the store, and what it returned
DbCall(op, arg, rows, visits, evs, returned) ==
    /\ visitors' = rows
    /\ total_visits' = visits
    /\ events' = evs
    /\ last' = [op |-> op, arg |-> arg, returned |-> returned]
    /\ UNCHANGED <<frame_count, detection_skip_frames, trackers, tracked_faces,
                   lost_trackers, next_tracker_id, current_faces, known_faces, now>>

\* add_visitor(face_id) returns True when its commit succeeded
DbAddVisitor ==
    \E face_id \in 1..DbIds :
        DbCall("add_visitor", face_id,
               add_visitor(visitors, face_id, TRUE),
               visits_after_add(total_visits, visitors, face_id, TRUE),
               events,
               ~visitor_exists(visitors, face_id))

\* log_event(face_id, event_type, image_path) returns True when its commit
\* succeeded
DbLogEvent ==
    /\ Len(events) < DbEvents
    /\ \E face_id \in 1..DbIds : \E event_type \in EventTypes : \E ok \in BOOLEAN :
          DbCall("log_event", <<face_id, event_type>>, visitors, total_visits,
                 log_event(events, face_id, event_type, "img", ok), ok)

DbGetVisitorStats ==
    DbCall("get_visitor_stats", None, visitors, total_visits, events,
           get_visitor_stats(visitors, events))

NextDb == DbAddVisitor \/ DbLogEvent \/ DbGetVisitorStats

SpecDb == DbInit /\ [][NextDb]_vars

----------------------------------------------------------------------------
(* The pipeline with the total_visits column of the store followed:        *)
(* VisitFrames frames with at most one detection of BoxA each; add_visitor *)
(* may fail to commit                                                      *)

VisitsInit ==
    /\ frame_count = 0
    /\ detection_skip_frames = 1
    /\ trackers = {}
    /\ tracked_faces = <<>>
    /\ lost_trackers = <<>>
    /\ next_tracker_id = 0
    /\ current_faces = <<>>
    /\ known_faces = {}
    /\ visitors = <<>>
    /\ events = <<>>
    /\ total_visits = <<>>
    /\ now = 0
    /\ last = [op |-> "init", detect |-> FALSE, active |-> <<>>, updated_ok |-> {},
               exit_raised |-> {}, evicted |-> {},
               exited |-> {}, swept |-> {}, calls |-> <<>>, touches |-> <<>>,
               sweep |-> FALSE,
               lag |-> 0, handled |-> <<>>, detected |-> <<>>]

VisitDets == {d \in Answers({BoxA}, 0..VisitIds, BOOLEAN, {TRUE}) : d.emb /\ d.init}

VisitsFrame ==
    /\ frame_count < VisitFrames
    /\ \E dt \in DtChoices \ {2} : \E dets \in DetChoices(VisitDets) :
       \E res \in [trackers -> Outcomes] :
          ProcessFrame(dt, res, dets, {}, FALSE, VisitTracks, VisitIds)

NextVisits == VisitsFrame

SpecVisits == VisitsInit /\ [][NextVisits]_vars

----------------------------------------------------------------------------
(* A run that goes on: the frame loop keeps calling process_frame, the     *)
(* clock advances between two frames, and from frame LiveOkUntil + 1 on    *)
(* every low-level update fails and the detector finds no face             *)

\* seconds between two frames when the clock advances
LiveDts == {1, 3}

LiveDets == {d \in Answers({BoxA}, 0..LiveIds, {TRUE}, {TRUE}) : d.emb /\ d.init}

LiveFrame ==
    /\ frame_count < LiveFrames
    /\ \E dt \in LiveDts :
       \E dets \in (IF frame_count + 1 <= LiveOkUntil THEN DetChoices(LiveDets)
                    ELSE {<<>>}) :
       \E res \in [trackers -> (IF frame_count + 1 <= LiveOkUntil THEN Outcomes
                                ELSE {Failed})] :
          ProcessFrame(dt, res, dets, {}, FALSE, LiveTracks, LiveIds)

NextLive == LiveFrame

\* a frame is processed. LiveFrame is enabled exactly when frame_count is
\* below LiveFrames (the detector may find nothing), and every step of
\* NextLive is a step of this action
FrameProcessed == frame_count < LiveFrames /\ frame_count' = frame_count + 1

\* the loop of process_video reads and processes the next frame as long as
\* there is one
SpecLive == Init /\ [][NextLive]_vars /\ WF_frame_count(FrameProcessed)

\* the same run with no frame guaranteed to come
SpecLiveUnfair == Init /\ [][NextLive]_vars

----------------------------------------------------------------------------
(* Properties *)

EventsOf(evs, f, type) ==
    Cardinality({i \in 1..Len(evs) : evs[i].face_id = f /\ evs[i].event_type = type})

ActiveIds(tracked_list) == {tracked_list[i].tracker_id : i \in 1..Len(tracked_list)}

\* C1: staleness exit is exactly-once. After every frame no ActiveVisitor is
\* stale; every identity the sweep removes gets exactly one exit event in
\* that frame; no other identity gets an exit event.
C1_StaleExitExactlyOnce ==
    [][/\ \A i \in 1..Len(current_faces') : ~Stale(current_faces'[i], now')
       /\ \A f \in last'.exited :
            /\ f \notin FaceIds(current_faces')
            /\ EventsOf(events', f, "exit") = EventsOf(events, f, "exit") + 1
       /\ \A f \in known_faces' \ last'.exited :
            EventsOf(events', f, "exit") = EventsOf(events, f, "exit")]_vars

\* C2: at the end of a frame no live track carries an identity whose exit
\* was processed in that frame.
C2_ExitRemovesTrack == \A f \in last.exited : f \notin TrackFaceIds

\* C3: at the end of every frame the identities with an ActiveVisitor are
\* exactly the identities held by live tracks.
C3_ActiveIffTracked == FaceIds(current_faces) = TrackFaceIds

\* C4: an identity is held by at most one live track.
C4_OneTrackPerIdentity ==
    \A t1, t2 \in DOMAIN tracked_faces :
        tracked_faces[t1].face_id = tracked_faces[t2].face_id => t1 = t2

\* C5: eviction counts consecutive failures: a track update evicts has
\* failed more than 30 updates in a row.
C5_EvictionNeedsConsecutiveFailures ==
    \A e \in last.evicted : e.lost_frames > max_lost_frames

\* C6: the frame that evicts a track leaves its identity without an
\* ActiveVisitor, and if the identity was ACTIVE before that frame, exactly
\* one exit event is logged for it in that frame.
C6_EvictionExits ==
    [][\A e \in last'.evicted :
          /\ e.face_id \notin FaceIds(current_faces')
          /\ e.face_id \in FaceIds(current_faces) =>
                EventsOf(events', e.face_id, "exit")
                    = EventsOf(events, e.face_id, "exit") + 1]_vars

\* C7: a track all of whose failures so far are the current run of
\* consecutive failures, and whose update fails again, stays live when that
\* failure is at most the 30th of the run and is removed by that update call
\* when it is the 31st.
C7_EvictionTiming ==
    [][\A t \in trackers :
          (/\ t \notin ActiveIds(last'.active)
           /\ LostCount(lost_trackers, t) = tracked_faces[t].lost_frames)
          => /\ tracked_faces[t].lost_frames + 1 <= 30 => t \in trackers'
             /\ tracked_faces[t].lost_frames + 1 = 31 => t \notin trackers'
             /\ tracked_faces[t].lost_frames + 1 <= 31]_vars

\* a track that was updated successfully at least once is evicted by its
\* 31st failure, all 31 in a row
C7_Witness ==
    \E e \in last.evicted :
        /\ e.lost_frames = 31 /\ e.lost = 31
        /\ frame_count > detection_skip_frames + 31

\* the tracks add_face creates in a step
Created == {t \in DOMAIN tracked_faces' : t >= next_tracker_id}

\* the rows log_event commits in a step
Logged == SubSeq(events', Len(events) + 1, Len(events'))

\* the log_event calls of a frame for an entry event of identity f
EntryCalls(calls, f) ==
    {i \in DOMAIN calls : calls[i].face_id = f /\ calls[i].event_type = "entry"}

RECURSIVE Committed(_)
\* the rows the store commits for a sequence of log_event calls
Committed(calls) ==
    IF calls = <<>> THEN <<>>
    ELSE log_event(<<>>, Head(calls).face_id, Head(calls).event_type, "img",
                   Head(calls).ok) \o Committed(Tail(calls))

\* C8 as stated: in every frame, the entry events persisted for an identity
\* are as many as the tracks created with that identity, returning visitor
\* or not.
C8_EntryPerCreatedTrack ==
    [][\A f \in known_faces' :
          EventsOf(Logged, f, "entry")
              = Cardinality({t \in Created : tracked_faces'[t].face_id = f})]_vars

\* C8 amended: in every frame, log_event is called for an entry event of an
\* identity once per track created with that identity, returning visitor or
\* not, and on no other path; the rows persisted in the frame are those of
\* the calls the store commits, so an entry event whose write fails is lost
\* and its track stays.
C8_EntryCallPerCreatedTrack ==
    [][/\ \A f \in known_faces' :
            Cardinality(EntryCalls(last'.calls, f))
                = Cardinality({t \in Created : tracked_faces'[t].face_id = f})
       /\ Logged = Committed(last'.calls)]_vars

\* a returning visitor got a second track whose entry event the store failed
\* to commit: two tracks of the identity, one entry event persisted
C8_Witness ==
    \E f \in known_faces :
        /\ Cardinality({t \in DOMAIN tracked_faces : tracked_faces[t].face_id = f}) = 2
        /\ EventsOf(events, f, "entry") = 1
        /\ \E i \in EntryCalls(last.calls, f) : ~last.calls[i].ok

\* C9: a visitor row is added only for an identity minted in that frame, and
\* the unique visitor count equals the number of identities minted.
C9_VisitorPerMintedIdentity ==
    [][/\ Len(visitors') >= Len(visitors)
       /\ SubSeq(visitors', 1, Len(visitors)) = visitors
       /\ \A i \in Len(visitors) + 1..Len(visitors') :
            visitors'[i] \in known_faces' \ known_faces
       /\ get_unique_visitor_count(visitors') = Cardinality(known_faces')]_vars

\* a returning visitor got a second track and the visitor count stayed 1
C9_Witness ==
    /\ get_unique_visitor_count(visitors) = 1
    /\ Cardinality(DOMAIN tracked_faces) = 2
    /\ \A t \in DOMAIN tracked_faces : tracked_faces[t].face_id = 1

\* C10: the detector is invoked exactly in the frames whose index is a
\* multiple of detection_skip_frames; any other frame adds no track, mints
\* no identity, creates no ActiveVisitor and logs no entry event.
C10_DetectionCadence ==
    [][/\ frame_count' = frame_count + 1
       /\ last'.detect <=> frame_count' % detection_skip_frames = 0
       /\ frame_count' % detection_skip_frames # 0 =>
            /\ next_tracker_id' = next_tracker_id
            /\ DOMAIN tracked_faces' \subseteq DOMAIN tracked_faces
            /\ known_faces' = known_faces
            /\ FaceIds(current_faces') \subseteq FaceIds(current_faces)
            /\ \A f \in known_faces' :
                  EventsOf(events', f, "entry") = EventsOf(events, f, "entry")]_vars

\* an off-cadence frame was processed while a track was live
C10_Witness ==
    /\ frame_count % detection_skip_frames # 0
    /\ ~last.detect
    /\ trackers # {}

\* IoU of the detection with the i-th track of the list handed to the matcher
MatchIou(i) == calculate_iou(last.bbox, last.tracked_list[i].bbox)

\* C11: the matcher returns no track exactly when no track of the list has
\* an IoU above 1/2 with the detection; the track it returns has an IoU
\* above 1/2 and no track of the list has a higher one.
C11_BestAboveThreshold ==
    last.op = "_match_detection_to_tracker" =>
        /\ last.best_match \in 0..Len(last.tracked_list)
        /\ last.best_match = 0 <=>
              \A i \in 1..Len(last.tracked_list) : ~FracGt(MatchIou(i), <<1, 2>>)
        /\ last.best_match # 0 =>
              /\ FracGt(MatchIou(last.best_match), <<1, 2>>)
              /\ \A i \in 1..Len(last.tracked_list) :
                    ~FracGt(MatchIou(i), MatchIou(last.best_match))

\* tracks at IoU 3/10 and 3/5, in that order: the second is returned
C11_Witness ==
    /\ last.op = "_match_detection_to_tracker"
    /\ Len(last.tracked_list) = 2
    /\ MatchIou(1) = <<3, 10>>
    /\ MatchIou(2) = <<3, 5>>
    /\ last.best_match = 2

\* what process_frame did with the detections of the frame
Notes == {last.handled[i] : i \in 1..Len(last.handled)}

\* the detection of note h has an IoU above 1/2 with a track of the list
\* update returned
AboveHalf(h) ==
    \E i \in 1..Len(last.active) :
        FracGt(calculate_iou(h.d.bbox, last.active[i].bbox), <<1, 2>>)

\* the collaborators let the detection of note h through: the crop is not
\* empty, there is an embedding, tracker.init succeeds
Accepted(h) == CropSize(h.d.bbox) > 0 /\ h.d.emb /\ h.d.init

\* C12: a detection goes to _process_new_face exactly when its IoU is at
\* most 1/2 with every track of the list update returned (so also when it
\* is at most 1/2 with every live track); then it is matched to no track
\* and, if the collaborators let it through, a track is created and an entry
\* event logged. A detection with an IoU above 1/2 is matched to a track,
\* and its handling consumes no track id, creates no track and logs nothing.
C12_UnmatchedIffAtMostHalf ==
    \A h \in Notes :
        /\ h.new_face <=> ~AboveHalf(h)
        /\ h.new_face <=> h.matched = NoTracker
        /\ (h.new_face /\ Accepted(h)) =>
              {"trackers", "tracked_faces", "events"} \subseteq h.changed
        /\ ~h.new_face => h.changed \subseteq {"current_faces"}

\* a detection whose IoU with the only track is exactly 1/2 went to
\* _process_new_face and became a second track
C12_Witness ==
    \E h \in Notes :
        /\ \E i \in 1..Len(last.active) :
              calculate_iou(h.d.bbox, last.active[i].bbox) = <<4, 8>>
        /\ h.new_face /\ "trackers" \in h.changed
        /\ Cardinality(trackers) = 2

\* C13: a detection whose IoU with a live track, at the box the track has
\* after update, is above 1/2 is matched to a track and creates none, also
\* when the update of that track failed in this frame.
C13_MatchesEveryLiveTrack ==
    [][\A i \in 1..Len(last'.handled) :
          (\E t \in DOMAIN tracked_faces' :
              /\ t < next_tracker_id
              /\ FracGt(calculate_iou(last'.handled[i].d.bbox,
                                      tracked_faces'[t].bbox), <<1, 2>>))
          => /\ last'.handled[i].matched # NoTracker
             /\ ~last'.handled[i].new_face
             /\ "trackers" \notin last'.handled[i].changed]_vars

\* the frame handled two detections, both unmatched, both unknown to the
\* recognizer and both let through by the collaborators
TwoNewFaces(handled) ==
    /\ Len(handled) = 2
    /\ \A i \in 1..2 :
          /\ handled[i].new_face
          /\ handled[i].d.who = None
          /\ Accepted(handled[i])

\* C15: a frame with two unmatched detections, both resolved as unknown,
\* mints two distinct identities, creates two tracks with distinct ids, one
\* per minted identity, logs one entry event per minted identity and leaves
\* an ActiveVisitor for each, pointing at its track.
C15_TwoNewFaces ==
    [][TwoNewFaces(last'.handled) =>
          LET minted == known_faces' \ known_faces
          IN /\ Cardinality(minted) = 2
             /\ Cardinality(Created) = 2
             /\ {tracked_faces'[t].face_id : t \in Created} = minted
             /\ \A f \in minted :
                   /\ EventsOf(Logged, f, "entry") = 1
                   /\ f \in FaceIds(current_faces')
                   /\ FaceInfo(current_faces', f).tracker_id \in Created
                   /\ tracked_faces'[FaceInfo(current_faces', f).tracker_id].face_id = f
             /\ Len(Logged) >= 2]_vars

\* two detections of the same box in the first detection frame became two
\* identities with a track each
C15_Witness ==
    /\ TwoNewFaces(last.handled)
    /\ last.handled[1].d.bbox = last.handled[2].d.bbox
    /\ known_faces = {1, 2}
    /\ trackers = {0, 1}
    /\ Len(current_faces) = 2

\* C14: every id add_face returns is greater than every id it returned
\* before, whatever methods of the tracker were called in between.
C14_IdsNeverReused ==
    \A i, j \in 1..Len(last.returned) :
        i < j => last.returned[i] < last.returned[j]

\* a null image path
NoPath == "None"

\* C16: when the sweep exit-processes an identity whose box gives an empty
\* crop, the ActiveVisitor is removed and an exit event with a null image
\* path is logged for it in that frame.
C16_EmptyCropExitLogged ==
    [][\A item \in last'.swept :
          CropSize(item.bbox) = 0 =>
              /\ item.face_id \notin FaceIds(current_faces')
              /\ \E i \in 1..Len(Logged) :
                    /\ Logged[i].face_id = item.face_id
                    /\ Logged[i].event_type = "exit"
                    /\ Logged[i].image_path = NoPath]_vars

\* C17: cleanup logs one exit event for every identity that is ACTIVE when
\* it is called, and leaves no ActiveVisitor and no live track.
C17_CleanupFlushes ==
    [][last'.op = "cleanup" =>
          /\ \A f \in FaceIds(current_faces) :
                EventsOf(events', f, "exit") = EventsOf(events, f, "exit") + 1
          /\ current_faces' = <<>>
          /\ trackers' = {}
          /\ tracked_faces' = <<>>]_vars

\* C20: every track update removes is in the list that call returns.
C20_EvictionReported ==
    \A e \in last.evicted : e.tracker_id \in ActiveIds(last.active)

\* the detection of note h reached add_face and tracker.init failed
InitFailed(h) == h.new_face /\ CropSize(h.d.bbox) > 0 /\ h.d.emb /\ ~h.d.init

\* C18: add_face with a failing tracker.init returns None and leaves the
\* tracks of the registry as they are; the handling of such a detection
\* changes neither the registry's tracks nor current_faces nor the events,
\* and process_frame calls log_event for no entry event.
C18_InitFailureCreatesNothing ==
    /\ \A bbox \in DetBoxes : \A face_id \in known_faces \cup {None} :
          \E added \in {add_face(Current, bbox, face_id, FALSE)} :
              /\ added.id = NoTracker
              /\ added.S.trackers = trackers
              /\ added.S.tracked_faces = tracked_faces
              /\ added.S.lost_trackers = lost_trackers
    /\ \A h \in Notes :
          InitFailed(h) =>
              /\ h.changed \cap {"trackers", "tracked_faces", "lost_trackers",
                                  "current_faces", "events"} = {}
              /\ \A i \in 1..Len(last.calls) : last.calls[i].event_type # "entry"

\* tracker.init failed for the detection of a known face while a track was
\* live: a track id was used up and nothing else changed
C18_Witness ==
    \E h \in Notes :
        /\ InitFailed(h)
        /\ h.d.who # None
        /\ h.changed = {"next_tracker_id"}
        /\ trackers # {}

\* C19: a detection handed to _process_new_face whose crop is empty or for
\* which get_embedding returns None changes nothing: no identity, no
\* visitor row, no track, no track id, no ActiveVisitor, no event, and
\* log_event is not called.
C19_AbandonedDetectionChangesNothing ==
    \A h \in Notes :
        (h.new_face /\ (CropSize(h.d.bbox) = 0 \/ ~h.d.emb)) =>
            /\ h.changed = {}
            /\ \A i \in 1..Len(last.calls) : last.calls[i].event_type # "entry"

\* a detection with a crop but no embedding was dropped while a track was
\* live and an identity known
C19_Witness ==
    \E h \in Notes :
        /\ h.new_face /\ CropSize(h.d.bbox) > 0 /\ ~h.d.emb
        /\ h.changed = {}
        /\ trackers # {} /\ known_faces # {}

\* the entry of the list update returns for track id
TrackedFace(id) ==
    [tracker_id |-> id, bbox |-> tracked_faces[id].bbox,
     face_id |-> tracked_faces[id].face_id]

\* C21: a detection matched to a track is not handed to _process_new_face
\* and its handling changes nothing but current_faces (no track, no track
\* id, no identity, no visitor row, no event); a frame calls log_event for
\* an entry event at most once per unmatched detection; and _update_tracker
\* for a track whose identity has an ActiveVisitor sets that entry's
\* last_seen to the time read and its bbox to the detection's, and changes
\* nothing else.
C21_MatchedIsContinuation ==
    /\ \A h \in Notes :
          h.matched # NoTracker =>
              /\ ~h.new_face
              /\ h.changed \subseteq {"current_faces"}
    /\ Cardinality({i \in DOMAIN last.calls : last.calls[i].event_type = "entry"})
          <= Cardinality({i \in DOMAIN last.handled : last.handled[i].new_face})
    /\ \A id \in DOMAIN tracked_faces : \A bbox \in DetBoxes : \A dt \in Dts :
          tracked_faces[id].face_id \in FaceIds(current_faces) =>
              \E S1 \in {update_tracker(Current, TrackedFace(id), bbox, now + dt)} :
                  LET face_id == tracked_faces[id].face_id
                      before == FaceInfo(current_faces, face_id)
                  IN /\ FaceInfo(S1.current_faces, face_id) =
                            [before EXCEPT !.bbox = bbox, !.last_seen = now + dt]
                     /\ Len(S1.current_faces) = Len(current_faces)
                     /\ \A i \in 1..Len(current_faces) :
                           current_faces[i].face_id # face_id
                               => S1.current_faces[i] = current_faces[i]
                     /\ \A k \in DOMAIN View(S1) \ {"current_faces"} :
                           View(S1)[k] = View(Current)[k]

\* a detection was matched to a track three seconds after the previous
\* frame and the ActiveVisitor of the track's identity was refreshed
C21_Witness ==
    \E h \in Notes :
        /\ h.matched \in DOMAIN tracked_faces
        /\ h.changed = {"current_faces"}
        /\ tracked_faces[h.matched].face_id \in FaceIds(current_faces)
        /\ FaceInfo(current_faces, tracked_faces[h.matched].face_id).last_seen = now
        /\ now >= 3

\* C22: after a frame the registry's box of a track a detection was matched
\* to is that detection's box.
C22_MatchedTrackTakesDetectionBox ==
    \A h \in Notes :
        h.matched \in DOMAIN tracked_faces
            => tracked_faces[h.matched].bbox = h.d.bbox

\* C28: the identity of a track a detection was matched to has an
\* ActiveVisitor after the frame.
C28_MatchedIdentityIsActive ==
    \A h \in Notes :
        h.matched \in DOMAIN tracked_faces
            => tracked_faces[h.matched].face_id \in FaceIds(current_faces)

\* the track _match_detection_to_tracker gives bbox among tracked_list
MatchedIn(bbox, tracked_list) ==
    LET m == match_detection_to_tracker(bbox, tracked_list)
    IN IF m = 0 THEN NoTracker ELSE tracked_list[m].tracker_id

\* C29: the detections of a frame are handled one by one in the order the
\* detector returned them, and each is matched to the track that
\* _match_detection_to_tracker gives its box among the list update returned
\* for the frame, whatever the other detections of the frame are and
\* whatever was done with them: a track matched by an earlier detection, or
\* not, is matched by a later one all the same, and a track created in the
\* pass is matched by none.
C29_EachDetectionMatchedAlone ==
    /\ Len(last.handled) = Len(last.detected)
    /\ \A i \in 1..Len(last.handled) :
          /\ last.handled[i].d = last.detected[i]
          /\ last.handled[i].matched = MatchedIn(last.detected[i].bbox, last.active)
          /\ last.handled[i].new_face = (last.handled[i].matched = NoTracker)

\* two detections of one frame were matched to the same track
C29_Witness ==
    /\ Len(last.handled) = 2
    /\ last.handled[1].matched # NoTracker
    /\ last.handled[2].matched = last.handled[1].matched
    /\ Len(last.active) = 1

\* the fields of the tracker
Registry(S) ==
    [trackers |-> S.trackers, tracked_faces |-> S.tracked_faces,
     lost_trackers |-> S.lost_trackers, next_tracker_id |-> S.next_tracker_id]

\* C26: a call remove_tracker(id) takes id out of trackers, tracked_faces
\* and lost_trackers, leaves every other track's handle, info and failure
\* counter and the id counter as they are, and changes nothing when id is in
\* none of the three; in every state, removing the same id a second time
\* changes nothing.
C26_RemoveIdempotent ==
    [][/\ last'.op = "remove_tracker" =>
            LET id == last'.arg
            IN /\ trackers' = trackers \ {id}
               /\ DOMAIN tracked_faces' = DOMAIN tracked_faces \ {id}
               /\ DOMAIN lost_trackers' = DOMAIN lost_trackers \ {id}
               /\ \A t \in DOMAIN tracked_faces' : tracked_faces'[t] = tracked_faces[t]
               /\ \A t \in DOMAIN lost_trackers' : lost_trackers'[t] = lost_trackers[t]
               /\ next_tracker_id' = next_tracker_id
               /\ (id \notin trackers \cup DOMAIN tracked_faces \cup DOMAIN lost_trackers)
                     => UNCHANGED <<trackers, tracked_faces, lost_trackers>>
       /\ \A id \in 0..next_tracker_id :
            \E S1 \in {remove_tracker(Current, id)} :
                /\ Registry(remove_tracker(S1, id)) = Registry(S1)
                /\ id \notin S1.trackers \cup DOMAIN S1.tracked_faces
                                         \cup DOMAIN S1.lost_trackers]_vars

\* a track add_face had created was removed while another stayed live with
\* its failure counter
C26_Witness ==
    /\ last.op = "remove_tracker"
    /\ \E i \in 1..Len(last.returned) : last.returned[i] = last.arg
    /\ last.arg \notin trackers
    /\ \E t \in trackers : t \in DOMAIN lost_trackers /\ lost_trackers[t] > 0

\* the unit cells of the pixel grid a box covers
Cells(b) == {<<x, y>> : x \in b[1]..(b[3] - 1), y \in b[2]..(b[4] - 1)}

\* C25: for boxes with x1 <= x2 and y1 <= y2, calculate_iou of a box that
\* covers at least one cell and itself is 1; of two boxes that share no
\* cell it is 0; it is the same in both orders of its arguments; and it is
\* 0 when the two boxes together cover no cell.
C25_IouLaws ==
    last.op = "calculate_iou" =>
        /\ Cells(last.box1) # {} => last.self[1] = last.self[2]
        /\ Cells(last.box1) \cap Cells(last.box2) = {} => last.iou[1] = 0
        /\ last.iou[1] * last.swapped[2] = last.swapped[1] * last.iou[2]
        /\ Cells(last.box1) \cup Cells(last.box2) = {} => last.iou[1] = 0

\* calculate_iou was applied to two different boxes that overlap in part
C25_Witness ==
    /\ last.op = "calculate_iou"
    /\ last.box1 = <<0, 0, 2, 1>>
    /\ last.box2 = <<1, 0, 2, 2>>
    /\ last.iou = <<1, 3>>
    /\ last.self = <<2, 2>>

\* the identities whose ActiveVisitor a frame wrote before its sweep: those
\* of the tracks in the list update returned and those of the tracks the
\* frame created
Refreshed ==
    {f \in FaceIds(current_faces') \cup last'.exited :
        \/ \E i \in 1..Len(last'.active) : last'.active[i].face_id = f
        \/ \E t \in Created : tracked_faces'[t].face_id = f}

\* C30 as stated: the sweep exits an identity only if the time it reads
\* minus the entry's last_seen is greater than 2, and no identity refreshed
\* in a frame is exited by that frame's sweep.
C30_RefreshedNeverExited ==
    [][last'.op = "process_frame" =>
          /\ \A item \in last'.swept : now' - item.last_seen > 2
          /\ Refreshed \cap last'.exited = {}]_vars

\* C30: the sweep exits an identity only if the time it reads minus the
\* entry's last_seen is greater than 2; an identity refreshed in a frame is
\* exited by that frame's sweep exactly when the sweep reads the clock more
\* than 2 seconds after the refresh did, however long the gap since the
\* previous frame.
C30_RefreshedExitedOnlyAfterLag ==
    [][last'.op = "process_frame" =>
          /\ \A item \in last'.swept : now' - item.last_seen > 2
          /\ \A f \in Refreshed : (f \in last'.exited) = (last'.lag > 2)]_vars

\* three seconds after the previous frame an identity was refreshed, the
\* sweep read the clock two seconds later and left it
C30_Witness ==
    /\ last.op = "process_frame"
    /\ last.lag = 2
    /\ last.exited = {}
    /\ now = 5
    /\ \E i \in 1..Len(last.active) :
          /\ last.active[i].face_id \in FaceIds(current_faces)
          /\ FaceInfo(current_faces, last.active[i].face_id).last_seen = 3

\* the Track Registry and the ActiveVisitor set among the fields S
Memory(S) ==
    [trackers |-> S.trackers, tracked_faces |-> S.tracked_faces,
     lost_trackers |-> S.lost_trackers, next_tracker_id |-> S.next_tracker_id,
     current_faces |-> S.current_faces]

\* env with every write of the store committed
AllCommitted(env) ==
    [env EXCEPT !.dets = [i \in DOMAIN env.dets |->
                             [env.dets[i] EXCEPT !.add_ok = TRUE, !.log_ok = TRUE]],
                !.seen_fail = {}, !.exit_fail = {}]

\* the fields S with an empty store
EmptyStore(S) == [S EXCEPT !.visitors = <<>>, !.events = <<>>]

\* the fields after a frame with the answers env, dt seconds after this one
AfterFrame(S, env) ==
    process_frame(S, env, ShouldDetect(frame_count + 1, detection_skip_frames),
                  now + env.dt, StoreTracks, StoreIds).S

\* C24: in every state, whatever the detector, the recognizer and the
\* low-level trackers answer in the next frame, the Track Registry and the
\* ActiveVisitor set after that frame are the same whether add_visitor,
\* log_event and update_visitor_last_seen fail or commit, and the same
\* whatever the store holds; a frame in which a write fails persists no
\* more than the same frame with every write committed.
C24_FailedWritesKeepMemory ==
    \A dt \in Dts \ {2} : \A env \in StoreEnvs(dt) :
        \E faulty \in {AfterFrame(Current, env)} :
        \E committed \in {AfterFrame(Current, AllCommitted(env))} :
            /\ Memory(faulty) = Memory(committed)
            /\ Memory(AfterFrame(EmptyStore(Current), env)) = Memory(faulty)
            /\ Len(faulty.events) <= Len(committed.events)
            /\ Len(faulty.visitors) <= Len(committed.visitors)

\* every write of an identity's life failed: it was minted, tracked and
\* active, it has left, and the store holds nothing
C24_Witness ==
    /\ last.op = "process_frame"
    /\ \E i \in 1..Len(last.calls) :
          /\ last.calls[i].event_type = "exit"
          /\ ~last.calls[i].ok
          /\ last.calls[i].face_id \in known_faces
          /\ last.calls[i].face_id \in TrackFaceIds
          /\ last.calls[i].face_id \notin FaceIds(current_faces)
    /\ events = <<>>
    /\ visitors = <<>>

\* something went wrong with the detection of note h in _process_new_face
FailedDetection(h) ==
    h.new_face /\ (~Accepted(h) \/ h.d.exc # "none")

\* C23: whatever fails in a frame (an empty crop, a missing embedding, a
\* failing tracker.init, a failing low-level update, an exception raised
\* while a new face or an exit is processed), every track whose low-level
\* update succeeds is in the list update returns, every detection of the
\* frame is handled, in order, a detection nothing goes wrong with still
\* gets its track and its ActiveVisitor, the sweep runs and exit-processes
\* every stale identity but those whose exit processing raised, and no
\* exception leaves process_frame, so that the frame loop goes on.
C23_FailuresAreIsolated ==
    /\ last.op # "crashed"
    /\ last.updated_ok \subseteq ActiveIds(last.active)
    /\ Len(last.handled) = Len(last.detected)
    /\ \A i \in 1..Len(last.handled) :
          LET h == last.handled[i]
          IN /\ h.d = last.detected[i]
             /\ (h.new_face /\ ~FailedDetection(h))
                   => {"trackers", "current_faces"} \subseteq h.changed
    /\ last.op = "process_frame" => last.sweep
    /\ \A i \in 1..Len(current_faces) :
          Stale(current_faces[i], now) => current_faces[i].face_id \in last.exit_raised

\* get_embedding raised for the first detection of a frame and the second
\* one got a track; of two stale identities, the exit processing of one
\* raised and the other was exit-processed; the update of a track failed
C23_Witness ==
    /\ last.op = "process_frame"
    /\ Len(last.handled) = 2
    /\ last.handled[1].d.exc = "get_embedding"
    /\ "trackers" \in last.handled[2].changed
    /\ last.exit_raised # {}
    /\ last.exit_raised \subseteq FaceIds(current_faces)
    /\ last.exited # {}
    /\ \E id \in DOMAIN tracked_faces : tracked_faces[id].lost_frames > 0

\* the tracking state of pipeline p: its Track Registry, its ActiveVisitor
\* set and its frame counter
TrackingState(p) ==
    [registry |-> Registry(CurrentOf(p)), current_faces |-> current_faces[p],
     frame_count |-> frame_count[p]]

\* C27: a call of process_frame or cleanup on one of two pipelines leaves
\* the tracks, the failure counters and the id counter of the other's
\* tracker, the other's current_faces and the other's frame_count as they
\* are, in whatever order the calls on the two pipelines come.
C27_PipelinesShareNoTrackingState ==
    [][\A q \in Pipes \ {last'.p} : TrackingState(q)' = TrackingState(q)]_vars

\* each pipeline has a track of its own with id 0, the tracks differ in
\* their failure counts, and one pipeline was stopped while the other went on
C27_Witness ==
    /\ last.op = "process_frame"
    /\ last.stopped = Pipes \ {last.p}
    /\ \A p \in Pipes : 0 \in trackers[p] /\ current_faces[p] # <<>>
    /\ tracked_faces[1][0].lost_frames # tracked_faces[2][0].lost_frames

\* C39: a call update_face_id(id, face_id) for a track of tracked_faces sets
\* that track's face_id to face_id and leaves its box and its lost_frames,
\* every other track, trackers, lost_trackers and next_tracker_id as they
\* are; for an id that is not in tracked_faces it changes nothing; in both
\* cases the keys of tracked_faces stay the same.
C39_SetIdentityOnly ==
    [][last'.op = "update_face_id" =>
          LET id == last'.arg[1]
              face_id == last'.arg[2]
          IN /\ UNCHANGED <<trackers, lost_trackers, next_tracker_id>>
             /\ DOMAIN tracked_faces' = DOMAIN tracked_faces
             /\ \A t \in DOMAIN tracked_faces \ {id} :
                   tracked_faces'[t] = tracked_faces[t]
             /\ id \in DOMAIN tracked_faces =>
                   tracked_faces'[id] = [tracked_faces[id] EXCEPT !.face_id = face_id]]_vars

\* update_face_id gave a track that had failed an update another identity
\* while a second track was live
C39_Witness ==
    /\ last.op = "update_face_id"
    /\ last.arg[1] \in trackers
    /\ tracked_faces[last.arg[1]].face_id = 2
    /\ tracked_faces[last.arg[1]].lost_frames > 0
    /\ Cardinality(trackers) = 2

\* C40: in every state of a FaceTracker, trackers and tracked_faces have
\* the same keys, every key of lost_trackers is a key of trackers, every key
\* is smaller than next_tracker_id, and no track of trackers has a count in
\* lost_trackers greater than max_lost_frames (30).
C40_RegistryConsistent ==
    /\ trackers = DOMAIN tracked_faces
    /\ DOMAIN lost_trackers \subseteq trackers
    /\ \A id \in trackers : id < next_tracker_id
    /\ \A id \in DOMAIN lost_trackers : lost_trackers[id] <= 30

\* a track whose identity was set anew stands at 30 counted failures, one
\* short of eviction, beside a track that has not failed
C40_Witness ==
    /\ trackers = {0, 1}
    /\ DOMAIN lost_trackers = {0}
    /\ lost_trackers[0] = 30
    /\ tracked_faces[0].face_id = 2
    /\ last.op = "update"


\* a box of zero area
Degenerate(bbox) == (bbox[3] - bbox[1]) * (bbox[4] - bbox[2]) = 0

\* a point, a vertical and a horizontal line inside BoxA, a line on BoxA's
\* edge, and a point left of the frame
DegenerateBoxes ==
    {BoxZ, <<1, 0, 1, 2>>, <<0, 1, 2, 1>>, <<0, 0, 0, 2>>, <<-1, 1, -1, 1>>}

\* the live tracks as update returns them
LiveList == [i \in 1..Cardinality(trackers) |-> TrackedFace(SortedSeq(trackers)[i])]

\* C33: a detection whose box has zero area is matched to no track (its IoU
\* with every track's box is 0), is handed to _process_new_face, and its
\* handling changes nothing: no track, no track id, no identity, no visitor
\* row, no ActiveVisitor, no event, whichever identity the recognizer
\* would resolve it to with an embedding at hand and tracker.init
\* succeeding.
C33_DegenerateDetectionIgnored ==
    /\ \A h \in Notes :
          Degenerate(h.d.bbox) =>
              /\ h.matched = NoTracker
              /\ h.new_face
              /\ h.changed = {}
    /\ \A bbox \in DegenerateBoxes :
          /\ Degenerate(bbox)
          /\ \A id \in DOMAIN tracked_faces :
                calculate_iou(bbox, tracked_faces[id].bbox)[1] = 0
          /\ MatchedIn(bbox, LiveList) = NoTracker
          /\ CropSize(bbox) = 0
          /\ \A d \in Answers({bbox}, 0..MaxIds, {TRUE}, {TRUE}) :
                d.emb /\ d.init /\ d.who <= Cardinality(known_faces) =>
                    LET S1 == process_new_face(Current, d, now, MaxTracks, MaxIds)
                    IN /\ View(S1) = View(Current)
                       /\ S1.calls = Current.calls

\* a degenerate detection the recognizer would have resolved came in a frame
\* with a live track around it, and nothing was done with it
C33_Witness ==
    \E h \in Notes :
        /\ h.d.bbox = BoxZ
        /\ h.d.emb
        /\ h.d.who # None
        /\ h.changed = {}
        /\ \E id \in trackers : tracked_faces[id].bbox = BoxA


\* the entry of track id in the list update returned
ActiveEntry(tracked_list, id) ==
    tracked_list[CHOOSE i \in 1..Len(tracked_list) : tracked_list[i].tracker_id = id]

\* track id of S, as it is after n failed updates
WithLostCount(S, id, n) ==
    [S EXCEPT !.lost_trackers = Store(S.lost_trackers, id, n),
              !.tracked_faces[id].lost_frames = n]

\* C32: in every frame, a track whose low-level update fails without the
\* failure count exceeding max_lost_frames stays live with its face_id and
\* its bbox (only its failure counters move), and a track whose update
\* succeeds and that no detection of the frame is matched to stays live
\* with its face_id and the bbox update gave it; the detection pass changes
\* no track that was there before it. The same holds of one failed update
\* at any failure count up to the ceiling: the track keeps its face_id and
\* bbox, no other track changes.
C32_UnmatchedOrFailedTrackKept ==
    [][/\ last'.op = "process_frame" =>
            \A id \in trackers :
                IF id \in ActiveIds(last'.active)
                THEN /\ id \in trackers'
                     /\ tracked_faces'[id] =
                            [face_id |-> tracked_faces[id].face_id,
                             bbox |-> ActiveEntry(last'.active, id).bbox,
                             lost_frames |-> 0]
                ELSE LostCount(lost_trackers, id) + 1 <= max_lost_frames =>
                        /\ id \in trackers'
                        /\ tracked_faces'[id] =
                               [tracked_faces[id] EXCEPT !.lost_frames = @ + 1]
       /\ \A id \in trackers : \A n \in {0, max_lost_frames - 1} :
            \E S1 \in {UpdateOne(WithLostCount(Current, id, n), id, Failed)} :
                /\ S1.trackers = trackers
                /\ S1.tracked_faces[id].face_id = tracked_faces[id].face_id
                /\ S1.tracked_faces[id].bbox = tracked_faces[id].bbox
                /\ S1.lost_trackers[id] = n + 1
                /\ \A other \in trackers \ {id} :
                      /\ S1.tracked_faces[other] = tracked_faces[other]
                      /\ LostCount(S1.lost_trackers, other) = LostCount(lost_trackers, other)
      ]_vars

\* in one frame the update of one track failed for the second time, the
\* update of another succeeded, and a detection was handled that was matched
\* to neither
C32_Witness ==
    /\ last.op = "process_frame"
    /\ \E id \in trackers : \E other \in trackers :
          /\ id \notin ActiveIds(last.active)
          /\ tracked_faces[id].lost_frames = 2
          /\ tracked_faces[id].bbox = BoxA
          /\ other \in ActiveIds(last.active)
    /\ \E h \in Notes : h.d.bbox = BoxA /\ h.matched = NoTracker


\* C31: after every frame the bbox of every current_faces entry is the
\* bbox of the track whose tracker_id the entry holds, when that track is
\* live.
C31_BoxMirrorsOwner ==
    \A i \in 1..Len(current_faces) :
        current_faces[i].tracker_id \in trackers =>
            current_faces[i].bbox = tracked_faces[current_faces[i].tracker_id].bbox


\* the identities with an event in evs
EventIds(evs) == {evs[i].face_id : i \in 1..Len(evs)}

\* C35: when every write commits, after every frame the exit events of an
\* identity are no more than its entry events (one entry event is still to
\* be answered while the identity has an ActiveVisitor), and every exit
\* event the frame logged is for an identity the sweep found in
\* current_faces, logged once.
C35_ExitsWithinEntries ==
    /\ \A f \in EventIds(events) :
          EventsOf(events, f, "exit")
              + (IF f \in FaceIds(current_faces) THEN 1 ELSE 0)
                  <= EventsOf(events, f, "entry")
    /\ \A i \in DOMAIN last.calls :
          last.calls[i].event_type = "exit" =>
              /\ \E e \in last.swept : e.face_id = last.calls[i].face_id
              /\ \A j \in DOMAIN last.calls :
                    (last.calls[j].event_type = "exit"
                        /\ last.calls[j].face_id = last.calls[i].face_id) => j = i

\* an identity that entered twice was exited once by the last frame
C35_Witness ==
    \E f \in EventIds(events) :
        /\ EventsOf(events, f, "entry") = 2
        /\ EventsOf(events, f, "exit") = 1
        /\ \E i \in DOMAIN last.calls :
              last.calls[i] = [face_id |-> f, event_type |-> "exit", ok |-> TRUE]
        /\ f \notin FaceIds(current_faces)


\* the first k rows of evs
Prefix(evs, k) == SubSeq(evs, 1, k)

\* C36: every frame leaves the rows persisted before it where they are and
\* puts its own rows after them, in the order of its log_event calls; the
\* frame calls log_event for an exit event of an identity only after the
\* entry event of the ActiveVisitor it removes was logged, in an earlier
\* frame or earlier in this one; and in the table every exit row of an
\* identity comes after an entry row of that identity that no earlier exit
\* row has answered.
C36_EventsInLifecycleOrder ==
    [][/\ Len(events') >= Len(events)
       /\ Prefix(events', Len(events)) = events
       /\ Logged = Committed(last'.calls)
       /\ \A i \in DOMAIN last'.calls :
            last'.calls[i].event_type = "exit" =>
                \/ last'.calls[i].face_id \in FaceIds(current_faces)
                \/ \E j \in 1..(i - 1) :
                      /\ last'.calls[j].event_type = "entry"
                      /\ last'.calls[j].face_id = last'.calls[i].face_id
       /\ \A k \in 1..Len(events') :
            events'[k].event_type = "exit" =>
                EventsOf(Prefix(events', k - 1), events'[k].face_id, "entry")
                    > EventsOf(Prefix(events', k - 1), events'[k].face_id, "exit")
      ]_vars

\* a frame logged the entry of one identity and then the exit of another
\* that had entered in an earlier frame
C36_Witness ==
    /\ Len(last.calls) = 2
    /\ last.calls[1].event_type = "entry"
    /\ last.calls[2].event_type = "exit"
    /\ Len(events) = 3
    /\ events[1] = [face_id |-> last.calls[2].face_id, event_type |-> "entry",
                    image_path |-> "img"]
    /\ events[2].face_id = last.calls[1].face_id
    /\ events[2].face_id # events[1].face_id
    /\ events[3].event_type = "exit"


\* what get_visitor_stats returns in this state
Stats == get_visitor_stats(visitors, events)

\* C38: add_visitor for a face_id the table holds returns False and leaves
\* the table as it is, for another face_id it returns True and adds its row,
\* and no other call changes the table, so that total_visitors is the number
\* of distinct face_ids add_visitor was called with; log_event adds 1 to
\* total_events when it returns True and nothing when it returns False; and
\* when every row of the events table is an entry or an exit, total_events
\* is entry_events + exit_events.
C38_StoreBookkeeping ==
    [][/\ last'.op = "add_visitor" =>
            /\ last'.returned = ~visitor_exists(visitors, last'.arg)
            /\ visitor_exists(visitors, last'.arg) => visitors' = visitors
            /\ ~visitor_exists(visitors, last'.arg) =>
                  visitors' = Append(visitors, last'.arg)
            /\ Stats'.total_visitors =
                  Stats.total_visitors + (IF last'.returned THEN 1 ELSE 0)
       /\ last'.op # "add_visitor" => visitors' = visitors
       /\ Stats'.total_visitors = Cardinality({visitors'[i] : i \in 1..Len(visitors')})
       /\ last'.op = "log_event" =>
            Stats'.total_events =
                Stats.total_events + (IF last'.returned THEN 1 ELSE 0)
       /\ last'.op # "log_event" => events' = events
       /\ (\A i \in 1..Len(events') : events'[i].event_type \in {"entry", "exit"})
            => Stats'.total_events = Stats'.entry_events + Stats'.exit_events
       /\ last'.op = "get_visitor_stats" => last'.returned = Stats
      ]_vars

\* create_sample_output: two visitors, an entry and an exit of the first and
\* an entry of the second, then the statistics
C38_Witness ==
    /\ visitors = <<1, 2>>
    /\ Len(events) = 3
    /\ events[1] = [face_id |-> 1, event_type |-> "entry", image_path |-> "img"]
    /\ events[2] = [face_id |-> 1, event_type |-> "exit", image_path |-> "img"]
    /\ events[3] = [face_id |-> 2, event_type |-> "entry", image_path |-> "img"]
    /\ last.op = "get_visitor_stats"
    /\ last.returned = [total_visitors |-> 2, total_events |-> 3,
                        entry_events |-> 2, exit_events |-> 1]


\* the update_visitor_last_seen calls of a frame for identity f
TouchesOf(touches, f) == {i \in DOMAIN touches : touches[i].face_id = f}

\* the tracks of identity f in the list update returned
AdvancedOf(tracked_list, f) ==
    {i \in 1..Len(tracked_list) : tracked_list[i].face_id = f}

\* C37: in every state update_visitor_last_seen(face_id) adds exactly 1 to
\* the total_visits of face_id's row, changes no other row and returns
\* True when the visitors table holds a row for face_id, and changes
\* nothing and returns False when it holds none; every row starts at
\* total_visits 1; every frame calls update_visitor_last_seen once for
\* each track with an identity in the list update returned and not
\* otherwise; and after the frame the total_visits of a row is what it was
\* (1 for a row added in the frame) plus the number of those calls for its
\* face_id.
C37_TotalVisitsCountsCalls ==
    [][/\ DOMAIN total_visits' = {visitors'[i] : i \in 1..Len(visitors')}
       /\ \A f \in 1..(VisitIds + 1) :
            \E R \in {update_visitor_last_seen(total_visits, visitors, f, TRUE)} :
                IF visitor_exists(visitors, f)
                THEN /\ R.returned
                     /\ R.visits[f] = total_visits[f] + 1
                     /\ DOMAIN R.visits = DOMAIN total_visits
                     /\ \A g \in DOMAIN total_visits \ {f} : R.visits[g] = total_visits[g]
                ELSE /\ ~R.returned
                     /\ R.visits = total_visits
       /\ \A f \in known_faces' :
            /\ Cardinality(TouchesOf(last'.touches, f))
                  = Cardinality(AdvancedOf(last'.active, f))
            /\ \A i \in TouchesOf(last'.touches, f) :
                  last'.touches[i].ok = visitor_exists(visitors, f)
       /\ \A i \in DOMAIN last'.touches : last'.touches[i].face_id \in known_faces
       /\ \A f \in DOMAIN total_visits' :
            total_visits'[f] =
                (IF f \in DOMAIN total_visits THEN total_visits[f]
                 ELSE default_total_visits)
                    + Cardinality(TouchesOf(last'.touches, f))
      ]_vars

\* two tracks of one identity were advanced in a frame: the visitor has two
\* entry events and a total_visits of 4
C37_Witness ==
    \E f \in DOMAIN total_visits :
        /\ total_visits[f] = 4
        /\ EventsOf(events, f, "entry") = 2
        /\ Cardinality(TouchesOf(last.touches, f)) = 2


=============================================================================
